---- MODULE Spec2Model ----
(***************************************************************************)
(* CogniTrain: the Storage module (src/js/storage.js), the persistence     *)
(* layer every game reports to.  The state is the browser's localStorage   *)
(* (the two keys the module reads: cognitrain_scores, cognitrain_streak)   *)
(* and the wall clock.  Every handler of Storage is one action; a handler  *)
(* is synchronous and reads one instant of the clock.                      *)
(*                                                                         *)
(* Dates: getDateString yields the UTC calendar date "YYYY-MM-DD" of an    *)
(* instant; two such strings are equal exactly when the instants fall in   *)
(* the same UTC day, so a date is modelled by its day number, the instant  *)
(* divided by the milliseconds of a day.                                   *)
(***************************************************************************)
EXTENDS Integers, Sequences, FiniteSets, TLC

(***************************************************************************)
(* Bounds of the model.                                                    *)
(***************************************************************************)
\* The retention cap of saveScore.  The source's literal is 100
\* (storage.js:52-53); the model checks the same code with a small cap.
Cap == 2
\* The clock runs from the first instant of day 1 for MaxDays days.
MaxDays == 3
\* saveScore calls since the ledger was last empty: enough to evict.
MaxAppends == Cap + 1
\* Rounds of a Stroop or Flanker session.  The source's totalRounds are 20
\* (stroop-test.js:28) and 25 (flanker-task.js:26).
TotalRounds == 2
\* Seconds of a session.  The source's config.time are 45, 30 and 20.
Seconds == 2
\* Pairs of an easy Memory Match board.  The source's config.pairs are 6, 8
\* and 12 (part_000:9-11).
Pairs == 2
\* Lives of a hard Pattern Puzzle session.  The source's config.lives are 5,
\* 3 and 2 (part_002:10-12).
Lives == 1
\* Levels of Pattern Puzzle and of Sequence Recall: a correct answer, or the
\* input that completes a round, is taken below the last one.
MaxLevel == 3
\* Math.random() in patterns.numbers: start is drawn from 1 .. 10
\* (part_002:20), in the model from 1 .. MaxStart.
MaxStart == 2
\* Math.random() in patterns.math: a and b are drawn from 1 .. 5
\* (part_002:76-77), in the model from 1 .. MaxAddend.
MaxAddend == 1
\* Math.random() over patterns.shapes.symbols: an index below 10
\* (part_002:41, 195), in the model below NSymbols.
NSymbols == 5
\* Items of an easy Sequence Recall game.  The source's config.items are 4,
\* 6 and 8 (part_001:9-11).
Items == 1
\* The first sequence of an easy Sequence Recall game.  The source's
\* config.startLength are 2, 3 and 4 (part_001:9-11).
StartLength == 1

(***************************************************************************)
(* Program constants.                                                      *)
(***************************************************************************)
\* Milliseconds of a day: Date.now() - 86400000
DayMs == 86400000
\* The granularity at which the model's clock advances: a day.
TickMs == DayMs
\* JSON null, the lastDate of a streak that never advanced.
NULL == -1

Games == {"stroop-test", "flanker-task"}
\* Sessions started, of both games together: one of each game, or one game
\* started again.
MaxSessions == Cardinality(Games)
Difficulties == {"easy", "hard"}
Scores == {0, 1}
StartMs == DayMs
EndMs == StartMs + MaxDays * DayMs

VARIABLES
    scoresItem,   \* localStorage[KEYS.SCORES]
    streakItem,   \* localStorage[KEYS.STREAK]
    clock,        \* Date.now(), in ms
    appended,     \* history: the records saveScore appended, per game, since
                  \* the ledger was last empty
    dayStart,     \* history: getStreak() when the current day began
    last,         \* history: the last handler, its arguments and the
                  \* state it started from
    stroop,       \* the StroopTest object and its interval timer
    flanker,      \* the FlankerTask object, its interval timer and its
                  \* pending timeouts
    sessions,     \* history, per game: sessions started, Storage.saveScore
                  \* calls since the last start(), and what ended the session
    tabs,         \* two pages of the origin, each inside Storage.saveScore:
                  \* where it stands and what it holds in its locals
    memory,       \* the MemoryMatch object, the classes of its cards, its
                  \* interval timer and its pending timeouts
    pattern,      \* the PatternPuzzle object, the grid and the option
                  \* buttons it rendered, and its pending timeouts
    render,       \* PatternPuzzle.renderOptions, statement by statement:
                  \* where it stands and its locals
    recall        \* the SequenceRecall object, its input panel, its
                  \* pending timeouts and its interval timers

svars == <<scoresItem, streakItem, clock, appended, dayStart, last>>
gvars == <<stroop, flanker, sessions>>
tvars == <<tabs>>
mvars == <<memory>>
pvars == <<pattern, render>>
qvars == <<recall>>
\* all but the storage and the clock
nvars == <<stroop, flanker, sessions, tabs, memory, pattern, render, recall>>
vars == <<scoresItem, streakItem, clock, appended, dayStart, last,
          stroop, flanker, sessions, tabs, memory, pattern, render, recall>>

(***************************************************************************)
(* localStorage items.  getItem returns null for an absent key; a present  *)
(* item either parses (kind "ok", val the parsed value) or makes           *)
(* JSON.parse throw (kind "garbage").                                      *)
(***************************************************************************)
DefaultStreak == [count |-> 0, lastDate |-> NULL]
EmptyLedger == <<>>

Absent(dflt) == [kind |-> "absent", val |-> dflt]
Garbage(dflt) == [kind |-> "garbage", val |-> dflt]
Stringified(v) == [kind |-> "ok", val |-> v]
\* the item is the empty string: present, but falsy, and JSON.parse throws
Blank(dflt) == [kind |-> "blank", val |-> dflt]
\* !localStorage.getItem(key)
Falsy(item) == item.kind \in {"absent", "blank"}

\* date.toISOString().split('T')[0]
getDateString(ms) == ms \div DayMs

\* JSON.parse(localStorage.getItem(KEYS.SCORES)) || {}, {} when it throws
getAllScores(item) == IF item.kind = "ok" THEN item.val ELSE EmptyLedger

\* A ledger is a JSON object: its entries <<game, rows>> in key order.
HasKey(obj, game) == \E i \in 1 .. Len(obj) : obj[i].game = game
KeyIndex(obj, game) == CHOOSE i \in 1 .. Len(obj) : obj[i].game = game

\* scores[game] || []
getScores(item, game) ==
    LET scores == getAllScores(item)
    IN  IF HasKey(scores, game) THEN scores[KeyIndex(scores, game)].rows ELSE <<>>

\* array.slice(-n)
SliceLast(s, n) == IF Len(s) > n THEN SubSeq(s, Len(s) - n + 1, Len(s)) ELSE s

\* the date filter is dropped
RECURSIVE TodayOf_NoFilter(_, _)
TodayOf_NoFilter(obj, today) ==
    IF obj = <<>> THEN <<>>
    ELSE LET e == Head(obj)
             Tag(rows) == [i \in 1 .. Len(rows) |->
                              [score |-> rows[i].score,
                               difficulty |-> rows[i].difficulty,
                               date |-> rows[i].date,
                               timestamp |-> rows[i].timestamp,
                               game |-> e.game]]
         IN  Tag(e.rows) \o TodayOf_NoFilter(Tail(obj), today)

\* for (const game in allScores) todayScores.push(...rows of today, tagged)
RECURSIVE TodayOf(_, _)
TodayOf(obj, today) ==
    IF obj = <<>> THEN <<>>
    ELSE LET e == Head(obj)
             IsToday(r) == r.date = today
             Tag(rows) == [i \in 1 .. Len(rows) |->
                              [score |-> rows[i].score,
                               difficulty |-> rows[i].difficulty,
                               date |-> rows[i].date,
                               timestamp |-> rows[i].timestamp,
                               game |-> e.game]]
         IN  Tag(SelectSeq(e.rows, IsToday)) \o TodayOf(Tail(obj), today)

getTodayScores(item, now) == TodayOf(getAllScores(item), getDateString(now))

getTodayCount(item, now) == Len(getTodayScores(item, now))

RECURSIVE TotalOf(_)
TotalOf(obj) == IF obj = <<>> THEN 0 ELSE Len(Head(obj).rows) + TotalOf(Tail(obj))

getTotalCount(item) == TotalOf(getAllScores(item))

\* JSON.parse(localStorage.getItem(KEYS.STREAK)) || {count: 0, lastDate: null}
ParseStreak(item) == IF item.kind = "ok" THEN item.val ELSE DefaultStreak

\* streak?.count || 0
getStreak(item) == IF item.kind = "ok" THEN item.val.count ELSE 0

RECURSIVE MaxOf(_)
MaxOf(s) ==
    IF Len(s) = 1 THEN s[1]
    ELSE LET m == MaxOf(Tail(s)) IN IF s[1] >= m THEN s[1] ELSE m

ScoreValues(rows) == [i \in 1 .. Len(rows) |-> rows[i].score]

\* the difficulty filter is dropped
getBestScore_NoFilter(item, game, difficulty) ==
    LET scores == getScores(item, game)
    IN  IF Len(scores) = 0 THEN 0 ELSE MaxOf(ScoreValues(scores))

\* difficulty "none" stands for the omitted argument (difficulty = null)
getBestScore(item, game, difficulty) ==
    LET all == getScores(item, game)
        Same(r) == r.difficulty = difficulty
        scores == IF difficulty # "none" THEN SelectSeq(all, Same) ELSE all
    IN  IF Len(scores) = 0 THEN 0 ELSE MaxOf(ScoreValues(scores))

\* values.reduce((a, b) => a + b, 0)
RECURSIVE SumOf(_)
SumOf(s) == IF s = <<>> THEN 0 ELSE Head(s) + SumOf(Tail(s))

\* Math.round(a / b) for b > 0: the nearest integer, a half going up
MathRoundDiv(a, b) == (2 * a + b) \div (2 * b)

NoStats == [played |-> 0, bestScore |-> 0, averageScore |-> 0, lastPlayed |-> NULL]

\* the average is cut off instead of rounded
getGameStats_Floor(item, game) ==
    LET scores == getScores(item, game)
        scoreValues == ScoreValues(scores)
    IN  IF Len(scores) = 0 THEN NoStats
        ELSE [played |-> Len(scores),
              bestScore |-> MaxOf(scoreValues),
              averageScore |-> SumOf(scoreValues) \div Len(scores),
              lastPlayed |-> scores[Len(scores)].date]

\* lastPlayed is taken from the oldest record
getGameStats_FirstDate(item, game) ==
    LET scores == getScores(item, game)
        scoreValues == ScoreValues(scores)
    IN  IF Len(scores) = 0 THEN NoStats
        ELSE [played |-> Len(scores),
              bestScore |-> MaxOf(scoreValues),
              averageScore |-> MathRoundDiv(SumOf(scoreValues), Len(scores)),
              lastPlayed |-> scores[1].date]

getGameStats(item, game) ==
    LET scores == getScores(item, game)
        scoreValues == ScoreValues(scores)
    IN  IF Len(scores) = 0 THEN NoStats
        ELSE [played |-> Len(scores),
              bestScore |-> MaxOf(scoreValues),
              averageScore |-> MathRoundDiv(SumOf(scoreValues), Len(scores)),
              lastPlayed |-> scores[Len(scores)].date]

(***************************************************************************)
(* Variants of updateStreak with one slip each; the properties below must  *)
(* tell them from the code.                                                *)
(***************************************************************************)
\* yesterday's play restarts the streak instead of continuing it
updateStreak_NoContinue(stk, sc, now) ==
    LET today == getDateString(now)
        yesterday == getDateString(now - DayMs)
        streak == ParseStreak(stk)
        todayScores == getTodayScores(sc, now)
    IN  IF Len(todayScores) > 0
        THEN IF streak.lastDate = today
             THEN stk
             ELSE Stringified([count |-> 1, lastDate |-> today])
        ELSE IF streak.lastDate # today /\ streak.lastDate # yesterday
             THEN Stringified([streak EXCEPT !.count = 0])
             ELSE Stringified(streak)

\* a new streak goes on counting from the old one
updateStreak_NoRestart(stk, sc, now) ==
    LET today == getDateString(now)
        yesterday == getDateString(now - DayMs)
        streak == ParseStreak(stk)
        todayScores == getTodayScores(sc, now)
    IN  IF Len(todayScores) > 0
        THEN IF streak.lastDate = today
             THEN stk
             ELSE Stringified([count |-> streak.count + 1, lastDate |-> today])
        ELSE IF streak.lastDate # today /\ streak.lastDate # yesterday
             THEN Stringified([streak EXCEPT !.count = 0])
             ELSE Stringified(streak)

\* a lapsed streak is never reset
updateStreak_NoBreak(stk, sc, now) ==
    LET today == getDateString(now)
        yesterday == getDateString(now - DayMs)
        streak == ParseStreak(stk)
        todayScores == getTodayScores(sc, now)
    IN  IF Len(todayScores) > 0
        THEN IF streak.lastDate = today
             THEN stk
             ELSE IF streak.lastDate = yesterday
             THEN Stringified([count |-> streak.count + 1, lastDate |-> today])
             ELSE Stringified([count |-> 1, lastDate |-> today])
        ELSE Stringified(streak)

\* the streak breaks on the first day without play
updateStreak_NoGrace(stk, sc, now) ==
    LET today == getDateString(now)
        yesterday == getDateString(now - DayMs)
        streak == ParseStreak(stk)
        todayScores == getTodayScores(sc, now)
    IN  IF Len(todayScores) > 0
        THEN IF streak.lastDate = today
             THEN stk
             ELSE IF streak.lastDate = yesterday
             THEN Stringified([count |-> streak.count + 1, lastDate |-> today])
             ELSE Stringified([count |-> 1, lastDate |-> today])
        ELSE IF streak.lastDate # today
             THEN Stringified([streak EXCEPT !.count = 0])
             ELSE Stringified(streak)

\* a day already counted is counted again
updateStreak_Recount(stk, sc, now) ==
    LET today == getDateString(now)
        yesterday == getDateString(now - DayMs)
        streak == ParseStreak(stk)
        todayScores == getTodayScores(sc, now)
    IN  IF Len(todayScores) > 0
        THEN IF streak.lastDate = yesterday \/ streak.lastDate = today
             THEN Stringified([count |-> streak.count + 1, lastDate |-> today])
             ELSE Stringified([count |-> 1, lastDate |-> today])
        ELSE IF streak.lastDate # today /\ streak.lastDate # yesterday
             THEN Stringified([streak EXCEPT !.count = 0])
             ELSE Stringified(streak)

\* yesterday is taken two days back
updateStreak_WrongYesterday(stk, sc, now) ==
    LET today == getDateString(now)
        yesterday == getDateString(now - 2 * DayMs)
        streak == ParseStreak(stk)
        todayScores == getTodayScores(sc, now)
    IN  IF Len(todayScores) > 0
        THEN IF streak.lastDate = today
             THEN stk
             ELSE IF streak.lastDate = yesterday
             THEN Stringified([count |-> streak.count + 1, lastDate |-> today])
             ELSE Stringified([count |-> 1, lastDate |-> today])
        ELSE IF streak.lastDate # today /\ streak.lastDate # yesterday
             THEN Stringified([streak EXCEPT !.count = 0])
             ELSE Stringified(streak)

\* the item is written only when the streak changed
updateStreak_SkipWrite(stk, sc, now) ==
    LET today == getDateString(now)
        yesterday == getDateString(now - DayMs)
        streak == ParseStreak(stk)
        todayScores == getTodayScores(sc, now)
    IN  IF Len(todayScores) > 0
        THEN IF streak.lastDate = today
             THEN stk
             ELSE IF streak.lastDate = yesterday
             THEN Stringified([count |-> streak.count + 1, lastDate |-> today])
             ELSE Stringified([count |-> 1, lastDate |-> today])
        ELSE IF streak.lastDate # today /\ streak.lastDate # yesterday
                /\ streak.count # 0
             THEN Stringified([streak EXCEPT !.count = 0])
             ELSE stk

\* a broken streak is stamped with today
updateStreak_StampBreak(stk, sc, now) ==
    LET today == getDateString(now)
        yesterday == getDateString(now - DayMs)
        streak == ParseStreak(stk)
        todayScores == getTodayScores(sc, now)
    IN  IF Len(todayScores) > 0
        THEN IF streak.lastDate = today
             THEN stk
             ELSE IF streak.lastDate = yesterday
             THEN Stringified([count |-> streak.count + 1, lastDate |-> today])
             ELSE Stringified([count |-> 1, lastDate |-> today])
        ELSE IF streak.lastDate # today /\ streak.lastDate # yesterday
             THEN Stringified([count |-> 0, lastDate |-> today])
             ELSE Stringified(streak)

\* a continued streak keeps its lastDate
updateStreak_KeepDate(stk, sc, now) ==
    LET today == getDateString(now)
        yesterday == getDateString(now - DayMs)
        streak == ParseStreak(stk)
        todayScores == getTodayScores(sc, now)
    IN  IF Len(todayScores) > 0
        THEN IF streak.lastDate = today
             THEN stk
             ELSE IF streak.lastDate = yesterday
             THEN Stringified([count |-> streak.count + 1, lastDate |-> yesterday])
             ELSE Stringified([count |-> 1, lastDate |-> today])
        ELSE IF streak.lastDate # today /\ streak.lastDate # yesterday
             THEN Stringified([streak EXCEPT !.count = 0])
             ELSE Stringified(streak)

(***************************************************************************)
(* updateStreak: the value of the streak key after the call.               *)
(***************************************************************************)
updateStreak(stk, sc, now) ==
    LET today == getDateString(now)
        yesterday == getDateString(now - DayMs)
        streak == ParseStreak(stk)
        todayScores == getTodayScores(sc, now)
    IN  IF Len(todayScores) > 0
        THEN IF streak.lastDate = today
             THEN stk
             ELSE IF streak.lastDate = yesterday
             THEN Stringified([count |-> streak.count + 1, lastDate |-> today])
             ELSE Stringified([count |-> 1, lastDate |-> today])
        ELSE IF streak.lastDate # today /\ streak.lastDate # yesterday
             THEN Stringified([streak EXCEPT !.count = 0])
             ELSE Stringified(streak)

\* the cap keeps the oldest records: slice(0, 100)
Pushed_KeepOldest(scores, game, rec) ==
    LET withKey == IF HasKey(scores, game) THEN scores
                   ELSE Append(scores, [game |-> game, rows |-> <<>>])
        i == KeyIndex(withKey, game)
        rows == Append(withKey[i].rows, rec)
        kept == IF Len(rows) > Cap THEN SubSeq(rows, 1, Cap) ELSE rows
    IN  [withKey EXCEPT ![i].rows = kept]

\* the ledger is rebuilt with the one game
Pushed_DropOthers(scores, game, rec) ==
    LET old == IF HasKey(scores, game) THEN scores[KeyIndex(scores, game)].rows
               ELSE <<>>
        rows == Append(old, rec)
        kept == IF Len(rows) > Cap THEN SliceLast(rows, Cap) ELSE rows
    IN  <<[game |-> game, rows |-> kept]>>

\* scores[game].push(record), then the cap
Pushed(scores, game, rec) ==
    LET withKey == IF HasKey(scores, game) THEN scores
                   ELSE Append(scores, [game |-> game, rows |-> <<>>])
        i == KeyIndex(withKey, game)
        rows == Append(withKey[i].rows, rec)
        kept == IF Len(rows) > Cap THEN SliceLast(rows, Cap) ELSE rows
    IN  [withKey EXCEPT ![i].rows = kept]

NoCall == [op |-> "none", game |-> "none", score |-> 0, difficulty |-> "none",
           streak |-> DefaultStreak, played |-> FALSE, total |-> 0,
           streakKind |-> "ok", scoresKind |-> "ok"]

Call(op, game, score, difficulty) ==
    [op |-> op, game |-> game, score |-> score, difficulty |-> difficulty,
     streak |-> ParseStreak(streakItem),
     played |-> getTodayCount(scoresItem, clock) > 0,
     total |-> getTotalCount(scoresItem),
     streakKind |-> streakItem.kind,
     scoresKind |-> scoresItem.kind]

NoHistory == [g \in Games |-> <<>>]

RECURSIVE SumLen(_, _)
SumLen(h, S) ==
    IF S = {} THEN 0
    ELSE LET g == CHOOSE x \in S : TRUE IN Len(h[g]) + SumLen(h, S \ {g})

\* the fields of the StroopTest object as the script declares them
StroopIdle ==
    [isPlaying |-> FALSE, correct |-> 0, incorrect |-> 0, round |-> 0,
     timeLeft |-> Seconds, timer |-> FALSE, difficulty |-> "easy",
     currentColor |-> "none"]

\* the fields of the FlankerTask object as the script declares them,
\* with the timeouts it has pending and, as history, the stimuli shown since
\* the last start()
FlankerIdle ==
    [isPlaying |-> FALSE, canAnswer |-> FALSE, correct |-> 0, incorrect |-> 0,
     round |-> 0, timeLeft |-> Seconds, timer |-> FALSE, difficulty |-> "easy",
     currentDirection |-> "none", reactionTimes |-> <<>>,
     nextPending |-> 0, fixationPending |-> 0, shown |-> 0]

\* config[difficulty].time, the easy game the longer one
ConfigTime(difficulty) == IF difficulty = "easy" THEN Seconds + 1 ELSE Seconds

NoSession == [n |-> 0, saves |-> 0, cause |-> "none"]

\* the fields of the MemoryMatch object as the script declares them.
\* flipped and matched are the cards of the grid that carry the class;
\* timeouts are the checkMatch callbacks not yet run; n, saves and flips
\* are history: sessions started, and the saveScore calls and the cards
\* flipped since the last start().
MemoryIdle ==
    [difficulty |-> "easy", cards |-> 0, flippedCards |-> <<>>,
     flipped |-> {}, matched |-> {}, matchedPairs |-> 0, moves |-> 0,
     seconds |-> 0, timer |-> FALSE, isLocked |-> FALSE, timeouts |-> <<>>,
     n |-> 0, saves |-> 0, flips |-> 0]

\* the fields of the PatternPuzzle object as the script declares them
\* (currentPattern: null).  options are the buttons of #pp-options, each
\* the option its click hands to handleAnswer; mystery says that the grid
\* has a cell of class "mystery"; pending counts the nextPuzzle timeouts not
\* yet run.  n, saves, wrong, puzzles and credits are history: sessions
\* started, the saveScore calls, the wrong answers and the puzzles rendered
\* since the last start(), and the correct answers credited for the puzzle
\* on display.
PatternIdle ==
    [currentPattern |-> [answer |-> NULL, type |-> "none"],
     level |-> 1, score |-> 0, streak |-> 0, lives |-> 3,
     difficulty |-> "easy", isPlaying |-> FALSE,
     options |-> {}, mystery |-> FALSE, pending |-> 0,
     n |-> 0, saves |-> 0, wrong |-> 0, puzzles |-> 0, credits |-> 0]

\* renderOptions before it is called
RenderIdle ==
    [pc |-> "idle", difficulty |-> "easy",
     currentPattern |-> [sequence |-> <<>>, answer |-> NULL, type |-> "none"],
     allOptions |-> <<>>, i |-> 0]

\* the fields of the SequenceRecall object as the script declares them.
\* inputShown says that the panel #sr-input is displayed; playPending and
\* nextPending count the playSequence and nextRound timeouts not yet run;
\* intervals holds the counter i of every interval of playSequence still
\* running.  n, saves and op are history: sessions started, the saveScore
\* calls since the last start(), and the last handler.
RecallIdle ==
    [sequence |-> <<>>, userInput |-> <<>>, level |-> 1, score |-> 0,
     difficulty |-> "easy", isPlaying |-> FALSE, isShowingSequence |-> FALSE,
     inputShown |-> FALSE, playPending |-> 0, nextPending |-> 0,
     intervals |-> <<>>, n |-> 0, saves |-> 0, op |-> "none"]

\* the pages that share the storage
Tabs == {1, 2}
\* a page outside saveScore.  pc is the line the page is at; snapshot is
\* what its getAllScores returned and scores the same object after the push;
\* lastWriter and overwrote are history: the page wrote the scores item
\* last, and another page had written it since this page read it.
IdleTab ==
    [pc |-> "idle", game |-> "none",
     rec |-> [score |-> 0, difficulty |-> "none", date |-> NULL, timestamp |-> 0],
     snapshot |-> EmptyLedger,
     scores |-> EmptyLedger, streak |-> Stringified(DefaultStreak),
     return |-> FALSE, stale |-> FALSE, lastWriter |-> FALSE,
     overwrote |-> FALSE]

Init ==
    /\ scoresItem = Stringified(EmptyLedger)
    /\ streakItem = Stringified(DefaultStreak)
    /\ clock = StartMs
    /\ appended = NoHistory
    /\ dayStart = 0
    /\ last = NoCall
    /\ stroop = StroopIdle
    /\ flanker = FlankerIdle
    /\ sessions = [g \in Games |-> NoSession]
    /\ tabs = [t \in Tabs |-> IdleTab]
    /\ memory = MemoryIdle
    /\ pattern = PatternIdle
    /\ render = RenderIdle
    /\ recall = RecallIdle

\* init without its recomputation
init_NoUpdate ==
    LET sc == IF Falsy(scoresItem) THEN Stringified(EmptyLedger) ELSE scoresItem
        st == IF Falsy(streakItem) THEN Stringified(DefaultStreak) ELSE streakItem
    IN  /\ scoresItem' = sc
        /\ streakItem' = st
        /\ UNCHANGED appended
        /\ last' = Call("init", "none", 0, "none")
        /\ UNCHANGED <<clock, dayStart>>

\* init that writes the empty ledger whatever it finds
init_Overwrite ==
    LET sc == Stringified(EmptyLedger)
        st == IF Falsy(streakItem) THEN Stringified(DefaultStreak) ELSE streakItem
    IN  /\ scoresItem' = sc
        /\ streakItem' = updateStreak(st, sc, clock)
        /\ UNCHANGED appended
        /\ last' = Call("init", "none", 0, "none")
        /\ UNCHANGED <<clock, dayStart>>

\* Storage.init(), run on every page load
init ==
    LET sc == IF Falsy(scoresItem) THEN Stringified(EmptyLedger) ELSE scoresItem
        st == IF Falsy(streakItem) THEN Stringified(DefaultStreak) ELSE streakItem
    IN  /\ scoresItem' = sc
        /\ streakItem' = updateStreak(st, sc, clock)
        /\ UNCHANGED appended
        /\ last' = Call("init", "none", 0, "none")
        /\ UNCHANGED <<clock, dayStart>>

\* the recomputation runs before the ledger is written
saveScore_UpdateFirst(game, score, difficulty) ==
    LET scores == getAllScores(scoresItem)
        today == getDateString(clock)
        rec == [score |-> score, difficulty |-> difficulty,
                date |-> today, timestamp |-> clock]
        sc == Stringified(Pushed(scores, game, rec))
    IN  /\ SumLen(appended, Games) < MaxAppends
        /\ scoresItem' = sc
        /\ streakItem' = updateStreak(streakItem, scoresItem, clock)
        /\ appended' = [appended EXCEPT ![game] = Append(@, rec)]
        /\ last' = Call("saveScore", game, score, difficulty)
        /\ UNCHANGED <<clock, dayStart>>

\* getAllScores without its try/catch: on an item that does not parse the
\* handler stops at its first line
saveScore_NoCatch(game, score, difficulty) ==
    LET scores == getAllScores(scoresItem)
        today == getDateString(clock)
        rec == [score |-> score, difficulty |-> difficulty,
                date |-> today, timestamp |-> clock]
        sc == Stringified(Pushed(scores, game, rec))
    IN  /\ SumLen(appended, Games) < MaxAppends
        /\ last' = Call("saveScore", game, score, difficulty)
        /\ IF scoresItem.kind = "garbage"
           THEN UNCHANGED <<scoresItem, streakItem, appended>>
           ELSE /\ scoresItem' = sc
                /\ streakItem' = updateStreak(streakItem, sc, clock)
                /\ appended' = [appended EXCEPT ![game] = Append(@, rec)]
        /\ UNCHANGED <<clock, dayStart>>

saveScore(game, score, difficulty) ==
    LET scores == getAllScores(scoresItem)
        today == getDateString(clock)
        rec == [score |-> score, difficulty |-> difficulty,
                date |-> today, timestamp |-> clock]
        sc == Stringified(Pushed(scores, game, rec))
    IN  /\ SumLen(appended, Games) < MaxAppends
        /\ scoresItem' = sc
        /\ streakItem' = updateStreak(streakItem, sc, clock)
        /\ appended' = [appended EXCEPT ![game] = Append(@, rec)]
        /\ last' = Call("saveScore", game, score, difficulty)
        /\ UNCHANGED <<clock, dayStart>>

\* the streak item is not removed
clearAll_KeepStreak ==
    /\ scoresItem' = Stringified(EmptyLedger)
    /\ streakItem' = updateStreak(streakItem, Stringified(EmptyLedger), clock)
    /\ appended' = NoHistory
    /\ last' = Call("clearAll", "none", 0, "none")
    /\ UNCHANGED <<clock, dayStart>>

clearAll ==
    /\ scoresItem' = Stringified(EmptyLedger)
    /\ streakItem' = updateStreak(Stringified(DefaultStreak),
                                  Stringified(EmptyLedger), clock)
    /\ appended' = NoHistory
    /\ last' = Call("clearAll", "none", 0, "none")
    /\ UNCHANGED <<clock, dayStart>>

\* time passes
Tick ==
    /\ clock + TickMs <= EndMs
    /\ clock' = clock + TickMs
    /\ dayStart' = IF getDateString(clock') # getDateString(clock)
                   THEN getStreak(streakItem) ELSE dayStart
    /\ last' = NoCall
    /\ UNCHANGED <<scoresItem, streakItem, appended>>

\* The storage is the browser's: the user, another page of the origin or the
\* browser itself removes an item or leaves one that does not parse.
removeItem(key) ==
    /\ \/ key = "scores" /\ scoresItem.kind # "absent"
          /\ scoresItem' = Absent(EmptyLedger) /\ appended' = NoHistory
          /\ UNCHANGED streakItem
       \/ key = "streak" /\ streakItem.kind # "absent"
          /\ streakItem' = Absent(DefaultStreak)
          /\ UNCHANGED <<scoresItem, appended>>
    /\ last' = NoCall
    /\ UNCHANGED <<clock, dayStart>>

corruptItem(key) ==
    /\ \/ key = "scores" /\ scoresItem.kind # "garbage"
          /\ scoresItem' = Garbage(EmptyLedger) /\ appended' = NoHistory
          /\ UNCHANGED streakItem
       \/ key = "streak" /\ streakItem.kind # "garbage"
          /\ streakItem' = Garbage(DefaultStreak)
          /\ UNCHANGED <<scoresItem, appended>>
    /\ last' = NoCall
    /\ UNCHANGED <<clock, dayStart>>

\* the item is left as the empty string
blankItem(key) ==
    /\ \/ key = "scores" /\ scoresItem.kind # "blank"
          /\ scoresItem' = Blank(EmptyLedger) /\ appended' = NoHistory
          /\ UNCHANGED streakItem
       \/ key = "streak" /\ streakItem.kind # "blank"
          /\ streakItem' = Blank(DefaultStreak)
          /\ UNCHANGED <<scoresItem, appended>>
    /\ last' = NoCall
    /\ UNCHANGED <<clock, dayStart>>

\* The read side: getScores, getAllScores, getBestScore, getTodayScores,
\* getTodayCount, getTotalCount, getStreak, getRecentScores, getGameStats.
\* Each parses what getItem returns and computes; none calls setItem.
ReadOps == {"getScores", "getBestScore", "getTotalCount", "getTodayScores",
            "getTodayCount", "getRecentScores", "getGameStats", "getStreak"}

\* a read that repairs the item it could not parse
read_Repairing(q) ==
    /\ q \in ReadOps
    /\ last' = [NoCall EXCEPT !.op = q]
    /\ streakItem' = IF q = "getStreak" /\ streakItem.kind # "ok"
                     THEN Stringified(DefaultStreak) ELSE streakItem
    /\ scoresItem' = IF q # "getStreak" /\ scoresItem.kind # "ok"
                     THEN Stringified(EmptyLedger) ELSE scoresItem
    /\ UNCHANGED <<clock, appended, dayStart>>

read(q) ==
    /\ q \in ReadOps
    /\ last' = [NoCall EXCEPT !.op = q]
    /\ UNCHANGED <<scoresItem, streakItem, clock, appended, dayStart>>

(***************************************************************************)
(* The Stroop and Flanker games (src/js/games).  A game object is a        *)
(* record of its fields; timer tells whether the interval set by start()   *)
(* is still set.  The browser runs one callback at a time: every click,    *)
(* interval tick and timeout is one action, in any order.                  *)
(***************************************************************************)
Colors == {"Red", "Green"}
Directions == {"left", "right"}
\* Date.now() - stimulusShownAt, in ms
ReactionTimes == {200, 1200}

\* { easy: 1, medium: 1.5, hard: 2.5 }, doubled
TwiceMultiplier(difficulty) ==
    CASE difficulty = "easy" -> 2
      [] difficulty = "medium" -> 3
      [] difficulty = "hard" -> 5

\* Math.round(correct / (correct + incorrect) * 200), 0 for 0 / 0
AccuracyBonus(correct, incorrect) ==
    IF correct + incorrect = 0 THEN 0
    ELSE MathRoundDiv(200 * correct, correct + incorrect)

StroopScore(st) ==
    LET baseScore == st.correct * 50
        accuracyBonus == AccuracyBonus(st.correct, st.incorrect)
    IN  MathRoundDiv((baseScore + accuracyBonus) * TwiceMultiplier(st.difficulty), 2)

\* Math.max(0, Math.round((1000 - avgRT) / 5))
RtBonus(reactionTimes) ==
    LET n == Len(reactionTimes)
        bonus == MathRoundDiv(1000 * n - SumOf(reactionTimes), 5 * n)
    IN  IF n = 0 THEN 0 ELSE IF bonus > 0 THEN bonus ELSE 0

FlankerScore(ft) ==
    LET baseScore == ft.correct * 50
        accuracyBonus == AccuracyBonus(ft.correct, ft.incorrect)
        rtBonus == RtBonus(ft.reactionTimes)
    IN  MathRoundDiv((baseScore + accuracyBonus + rtBonus)
                         * TwiceMultiplier(ft.difficulty), 2)

Ended(ses, game, cause) ==
    [ses EXCEPT ![game].saves = @ + 1, ![game].cause = cause]

\* endGame without clearInterval
StroopEndGame_KeepTimer(st, ses, cause) ==
    /\ stroop' = [st EXCEPT !.isPlaying = FALSE]
    /\ saveScore("stroop-test", StroopScore(st), st.difficulty)
    /\ sessions' = Ended(ses, "stroop-test", cause)

\* StroopTest.endGame, from the object st
StroopEndGame(st, ses, cause) ==
    /\ stroop' = [st EXCEPT !.isPlaying = FALSE, !.timer = FALSE]
    /\ saveScore("stroop-test", StroopScore(st), st.difficulty)
    /\ sessions' = Ended(ses, "stroop-test", cause)

\* StroopTest.nextChallenge, from the object st
StroopNextChallenge(st, ses) ==
    IF ~st.isPlaying
    THEN stroop' = st /\ sessions' = ses /\ UNCHANGED svars
    ELSE LET r == [st EXCEPT !.round = @ + 1]
         IN  IF r.round > TotalRounds
             THEN StroopEndGame(r, ses, "rounds")
             ELSE /\ \E c \in Colors : stroop' = [r EXCEPT !.currentColor = c]
                  /\ sessions' = ses
                  /\ UNCHANGED svars

\* StroopTest.start; its nextChallenge makes round 1, which totalRounds admits
StroopStart(difficulty) ==
    /\ sessions["stroop-test"].n + sessions["flanker-task"].n < MaxSessions
    /\ StroopNextChallenge(
           [stroop EXCEPT !.difficulty = difficulty, !.correct = 0,
                          !.incorrect = 0, !.round = 0,
                          !.timeLeft = ConfigTime(difficulty),
                          !.isPlaying = TRUE, !.timer = TRUE],
           [sessions EXCEPT !["stroop-test"] =
                [n |-> @.n + 1, saves |-> 0, cause |-> "none"]])
    /\ UNCHANGED flanker

\* a click on a colour button: StroopTest.handleAnswer
StroopHandleAnswer(colorName) ==
    /\ sessions["stroop-test"].n > 0
    /\ stroop.isPlaying
    /\ StroopNextChallenge(
           IF colorName = stroop.currentColor
           THEN [stroop EXCEPT !.correct = @ + 1]
           ELSE [stroop EXCEPT !.incorrect = @ + 1],
           sessions)
    /\ UNCHANGED flanker

\* a tick of the interval of StroopTest.start
StroopTimer ==
    /\ stroop.timer
    /\ LET t == [stroop EXCEPT !.timeLeft = @ - 1]
       IN  IF t.timeLeft <= 0
           THEN StroopEndGame(t, sessions, "timer")
           ELSE stroop' = t /\ UNCHANGED sessions /\ UNCHANGED svars
    /\ UNCHANGED flanker

\* FlankerTask.endGame, from the object ft
FlankerEndGame(ft, ses, cause) ==
    /\ flanker' = [ft EXCEPT !.isPlaying = FALSE, !.canAnswer = FALSE,
                             !.timer = FALSE]
    /\ saveScore("flanker-task", FlankerScore(ft), ft.difficulty)
    /\ sessions' = Ended(ses, "flanker-task", cause)

\* FlankerTask.start
FlankerStart(difficulty) ==
    /\ sessions["stroop-test"].n + sessions["flanker-task"].n < MaxSessions
    /\ flanker' = [flanker EXCEPT !.difficulty = difficulty, !.correct = 0,
                                  !.incorrect = 0, !.round = 0,
                                  !.timeLeft = ConfigTime(difficulty), !.isPlaying = TRUE,
                                  !.canAnswer = FALSE, !.reactionTimes = <<>>,
                                  !.timer = TRUE, !.nextPending = @ + 1,
                                  !.shown = 0]
    /\ sessions' = [sessions EXCEPT !["flanker-task"] =
                       [n |-> @.n + 1, saves |-> 0, cause |-> "none"]]
    /\ UNCHANGED svars
    /\ UNCHANGED stroop

\* a timeout of start (500 ms) or of handleAnswer (400 ms) expires:
\* FlankerTask.nextChallenge
FlankerNextChallenge ==
    /\ flanker.nextPending > 0
    /\ LET ft == [flanker EXCEPT !.nextPending = @ - 1]
       IN  IF ~ft.isPlaying
           THEN flanker' = ft /\ UNCHANGED sessions /\ UNCHANGED svars
           ELSE LET r == [ft EXCEPT !.round = @ + 1]
                IN  IF r.round > TotalRounds
                    THEN FlankerEndGame(r, sessions, "rounds")
                    ELSE /\ flanker' = [r EXCEPT !.canAnswer = FALSE,
                                                 !.fixationPending = @ + 1]
                         /\ UNCHANGED sessions
                         /\ UNCHANGED svars
    /\ UNCHANGED stroop

\* the fixation timeout of nextChallenge (500 ms) expires: the arrows show
FlankerShowArrows ==
    /\ flanker.fixationPending > 0
    /\ LET ft == [flanker EXCEPT !.fixationPending = @ - 1]
       IN  IF ~ft.isPlaying
           THEN flanker' = ft
           ELSE \E centerDirection \in Directions :
                    flanker' = [ft EXCEPT !.currentDirection = centerDirection,
                                          !.canAnswer = TRUE,
                                          !.shown = @ + 1]
    /\ UNCHANGED sessions
    /\ UNCHANGED svars
    /\ UNCHANGED stroop

\* a click on an arrow button or an arrow key: FlankerTask.handleAnswer
FlankerHandleAnswer(direction, reactionTime) ==
    /\ sessions["flanker-task"].n > 0
    /\ flanker.isPlaying /\ flanker.canAnswer
    /\ flanker' =
           IF direction = flanker.currentDirection
           THEN [flanker EXCEPT !.canAnswer = FALSE, !.correct = @ + 1,
                                !.reactionTimes = Append(@, reactionTime),
                                !.nextPending = @ + 1]
           ELSE [flanker EXCEPT !.canAnswer = FALSE, !.incorrect = @ + 1,
                                !.nextPending = @ + 1]
    /\ UNCHANGED sessions
    /\ UNCHANGED svars
    /\ UNCHANGED stroop

\* a tick of the interval of FlankerTask.start
FlankerTimer ==
    /\ flanker.timer
    /\ LET t == [flanker EXCEPT !.timeLeft = @ - 1]
       IN  IF t.timeLeft <= 0
           THEN FlankerEndGame(t, sessions, "timer")
           ELSE flanker' = t /\ UNCHANGED sessions /\ UNCHANGED svars
    /\ UNCHANGED stroop

NextGames ==
    \/ (\E d \in Difficulties : StroopStart(d)) /\ UNCHANGED <<tvars, mvars, pvars, qvars>>
    \/ (\E c \in Colors : StroopHandleAnswer(c)) /\ UNCHANGED <<tvars, mvars, pvars, qvars>>
    \/ StroopTimer /\ UNCHANGED <<tvars, mvars, pvars, qvars>>
    \/ (\E d \in Difficulties : FlankerStart(d)) /\ UNCHANGED <<tvars, mvars, pvars, qvars>>
    \/ FlankerNextChallenge /\ UNCHANGED <<tvars, mvars, pvars, qvars>>
    \/ FlankerShowArrows /\ UNCHANGED <<tvars, mvars, pvars, qvars>>
    \/ (\E d \in Directions, rt \in ReactionTimes : FlankerHandleAnswer(d, rt))
          /\ UNCHANGED <<tvars, mvars, pvars, qvars>>
    \/ FlankerTimer /\ UNCHANGED <<tvars, mvars, pvars, qvars>>

Next ==
    \/ init /\ UNCHANGED nvars
    \/ (\E g \in Games, s \in Scores, d \in Difficulties : saveScore(g, s, d))
          /\ UNCHANGED nvars
    \/ clearAll /\ UNCHANGED nvars
    \/ Tick /\ UNCHANGED nvars

Spec == Init /\ [][Next]_vars

\* The two games played on the store, the clock standing still.
SpecGames == Init /\ [][NextGames]_vars

Keys == {"scores", "streak"}

NextEnv ==
    \/ init /\ UNCHANGED nvars
    \/ (\E g \in Games : saveScore(g, 1, "easy")) /\ UNCHANGED nvars
    \/ clearAll /\ UNCHANGED nvars
    \/ Tick /\ UNCHANGED nvars
    \/ (\E k \in Keys : removeItem(k)) /\ UNCHANGED nvars
    \/ (\E k \in Keys : corruptItem(k)) /\ UNCHANGED nvars
    \/ (\E q \in ReadOps : read(q)) /\ UNCHANGED nvars

\* The same program on a storage that loses or garbles items.
SpecEnv == Init /\ [][NextEnv]_vars

NextStart ==
    \/ init /\ UNCHANGED nvars
    \/ (\E g \in Games : saveScore(g, 1, "easy")) /\ UNCHANGED nvars
    \/ Tick /\ UNCHANGED nvars
    \/ (\E k \in Keys : removeItem(k)) /\ UNCHANGED nvars
    \/ (\E k \in Keys : corruptItem(k)) /\ UNCHANGED nvars
    \/ (\E k \in Keys : blankItem(k)) /\ UNCHANGED nvars

\* Page loads on whatever the storage holds.
SpecStart == Init /\ [][NextStart]_vars

(***************************************************************************)
(* The clock inside a handler.  saveScore reads the clock five times: for  *)
(* the record's date (storage.js:38), for its timestamp (:48), and, in     *)
(* updateStreak, for today (:156), for yesterday (:157) and, through       *)
(* getTodayScores (:167), for the day whose rows it filters (:104).  The   *)
(* clock runs between the reads; when the handler starts in the last       *)
(* millisecond of a day, midnight falls between two of them.               *)
(***************************************************************************)
\* updateStreak with its three reads of the clock told apart
updateStreakReads(stk, sc, tToday, tYesterday, tScores) ==
    LET today == getDateString(tToday)
        yesterday == getDateString(tYesterday - DayMs)
        streak == ParseStreak(stk)
        todayScores == getTodayScores(sc, tScores)
    IN  IF Len(todayScores) > 0
        THEN IF streak.lastDate = today
             THEN stk
             ELSE IF streak.lastDate = yesterday
             THEN Stringified([count |-> streak.count + 1, lastDate |-> today])
             ELSE Stringified([count |-> 1, lastDate |-> today])
        ELSE IF streak.lastDate # today /\ streak.lastDate # yesterday
             THEN Stringified([streak EXCEPT !.count = 0])
             ELSE Stringified(streak)

\* the reads of the clock after which midnight may fall: the 1st to the 4th
ClockReads == 1 .. 4

\* Storage.saveScore begun in the last millisecond of the day, midnight
\* falling after its k-th read of the clock
saveScoreAtMidnight(game, score, difficulty, k) ==
    LET before == clock + DayMs - 1
        after == clock + DayMs
        t(i) == IF i <= k THEN before ELSE after
        scores == getAllScores(scoresItem)
        today == getDateString(t(1))
        rec == [score |-> score, difficulty |-> difficulty,
                date |-> today, timestamp |-> t(2)]
        sc == Stringified(Pushed(scores, game, rec))
    IN  /\ SumLen(appended, Games) < MaxAppends
        /\ after <= EndMs
        /\ scoresItem' = sc
        /\ streakItem' = updateStreakReads(streakItem, sc, t(3), t(4), t(5))
        /\ appended' = [appended EXCEPT ![game] = Append(@, rec)]
        /\ last' = Call("saveScore", game, score, difficulty)
        /\ clock' = after
        /\ dayStart' = getStreak(streakItem)

NextClock ==
    \/ init /\ UNCHANGED nvars
    \/ (\E g \in Games : saveScore(g, 1, "easy")) /\ UNCHANGED nvars
    \/ (\E g \in Games, k \in ClockReads : saveScoreAtMidnight(g, 1, "easy", k))
          /\ UNCHANGED nvars
    \/ clearAll /\ UNCHANGED nvars
    \/ Tick /\ UNCHANGED nvars

\* The same program, its handlers taking time.
SpecClock == Init /\ [][NextClock]_vars

(***************************************************************************)
(* saveScore on arguments no game passes.  JSON.parse returns a plain      *)
(* object, so scores[game] finds, besides the ledger's own keys, what the  *)
(* object inherits from Object.prototype.                                  *)
(***************************************************************************)
\* names every object inherits
ObjectPrototype == {"constructor"}
\* a valid call, and calls with one argument no game passes
AnyCalls == {<<"stroop-test", 1, "easy">>, <<"no-such-game", 1, "easy">>,
             <<"stroop-test", -1, "easy">>, <<"stroop-test", 1, "insane">>,
             <<"constructor", 1, "easy">>}

\* !scores[game] is false: an own key holds an array, an inherited name a
\* function
Truthy(scores, game) == HasKey(scores, game) \/ game \in ObjectPrototype

\* Storage.saveScore(game, score, difficulty) for any strings and number.
\* scores[game].push of a function is a TypeError: the handler ends there.
saveScoreAny(game, score, difficulty) ==
    LET scores == getAllScores(scoresItem)
        today == getDateString(clock)
        rec == [score |-> score, difficulty |-> difficulty,
                date |-> today, timestamp |-> clock]
        sc == Stringified(Pushed(scores, game, rec))
    IN  /\ SumLen(appended, Games) < MaxAppends
        /\ getTotalCount(scoresItem) < MaxAppends
        /\ IF Truthy(scores, game) /\ ~HasKey(scores, game)
           THEN /\ last' = [Call("saveScore", game, score, difficulty)
                               EXCEPT !.op = "saveScore TypeError"]
                /\ UNCHANGED <<scoresItem, streakItem, appended>>
           ELSE /\ scoresItem' = sc
                /\ streakItem' = updateStreak(streakItem, sc, clock)
                /\ appended' = IF game \in Games
                               THEN [appended EXCEPT ![game] = Append(@, rec)]
                               ELSE appended
                /\ last' = Call("saveScore", game, score, difficulty)
        /\ UNCHANGED <<clock, dayStart>>

NextAny ==
    \/ init /\ UNCHANGED nvars
    \/ (\E c \in AnyCalls : saveScoreAny(c[1], c[2], c[3])) /\ UNCHANGED nvars
    \/ clearAll /\ UNCHANGED nvars
    \/ Tick /\ UNCHANGED nvars

\* The same program, saveScore called with any arguments.
SpecAny == Init /\ [][NextAny]_vars

(***************************************************************************)
(* Two pages on one storage.  A page runs its handler to the end, but      *)
(* nothing orders the getItem and setItem calls of two pages: between any  *)
(* two storage calls of one page the other page may make its own.  The     *)
(* clock stands still; each page saves its own score, which tells the      *)
(* records of the two apart.                                               *)
(***************************************************************************)
InFlight == Cardinality({t \in Tabs : tabs[t].pc = "pushed"})

\* saveScore to the push and the cap (storage.js:37-54): getItem
TabGetAllScores(t, game, difficulty) ==
    LET snapshot == getAllScores(scoresItem)
        rec == [score |-> t, difficulty |-> difficulty,
                date |-> getDateString(clock), timestamp |-> clock]
    IN  /\ tabs[t].pc = "idle"
        /\ SumLen(appended, Games) + InFlight < MaxAppends
        /\ tabs' = [tabs EXCEPT ![t] =
                        [@ EXCEPT !.pc = "pushed", !.game = game, !.rec = rec,
                                  !.snapshot = snapshot,
                                  !.scores = Pushed(snapshot, game, rec),
                                  !.stale = FALSE]]
        /\ last' = NoCall
        /\ UNCHANGED <<scoresItem, streakItem, clock, appended, dayStart>>

\* what setItem leaves of the pages: the writer wrote last, and every page
\* between its read and its write holds a stale ledger
Written(t) ==
    [u \in Tabs |->
        IF u = t
        THEN [tabs[t] EXCEPT !.pc = "written", !.lastWriter = TRUE,
                             !.overwrote = tabs[t].stale]
        ELSE [tabs[u] EXCEPT !.lastWriter = FALSE,
                             !.stale = @ \/ tabs[u].pc = "pushed"]]

\* the page reads the item again before it writes, and pushes onto that
TabSetScores_Merging(t) ==
    /\ tabs[t].pc = "pushed"
    /\ scoresItem' = Stringified(Pushed(getAllScores(scoresItem),
                                        tabs[t].game, tabs[t].rec))
    /\ appended' = [appended EXCEPT ![tabs[t].game] = Append(@, tabs[t].rec)]
    /\ tabs' = Written(t)
    /\ last' = NoCall
    /\ UNCHANGED <<streakItem, clock, dayStart>>

\* localStorage.setItem(KEYS.SCORES, JSON.stringify(scores)) (storage.js:56)
TabSetScores(t) ==
    /\ tabs[t].pc = "pushed"
    /\ scoresItem' = Stringified(tabs[t].scores)
    /\ appended' = [appended EXCEPT ![tabs[t].game] = Append(@, tabs[t].rec)]
    /\ tabs' = Written(t)
    /\ last' = NoCall
    /\ UNCHANGED <<streakItem, clock, dayStart>>

\* updateStreak to its last line (storage.js:156-186): the getItem of the
\* streak and, in getTodayScores, of the scores
TabRecompute(t) ==
    LET streak == ParseStreak(streakItem)
        todayScores == getTodayScores(scoresItem, clock)
    IN  /\ tabs[t].pc = "written"
        /\ tabs' = [tabs EXCEPT ![t] =
                        [@ EXCEPT !.pc = "recomputed",
                                  !.streak = updateStreak(streakItem, scoresItem, clock),
                                  !.return = /\ Len(todayScores) > 0
                                             /\ streak.lastDate = getDateString(clock)]]
        /\ last' = NoCall
        /\ UNCHANGED <<scoresItem, streakItem, clock, appended, dayStart>>

\* localStorage.setItem(KEYS.STREAK, JSON.stringify(streak)) (storage.js:187),
\* unless updateStreak returned at storage.js:172
TabSetStreak(t) ==
    /\ tabs[t].pc = "recomputed"
    /\ streakItem' = IF tabs[t].return THEN streakItem ELSE tabs[t].streak
    /\ tabs' = [tabs EXCEPT ![t] = [@ EXCEPT !.pc = "idle"]]
    /\ last' = NoCall
    /\ UNCHANGED <<scoresItem, clock, appended, dayStart>>

NextTabs ==
    \/ (\E t \in Tabs, g \in Games, d \in Difficulties : TabGetAllScores(t, g, d))
          /\ UNCHANGED <<gvars, mvars, pvars, qvars>>
    \/ (\E t \in Tabs : TabSetScores(t)) /\ UNCHANGED <<gvars, mvars, pvars, qvars>>
    \/ (\E t \in Tabs : TabRecompute(t)) /\ UNCHANGED <<gvars, mvars, pvars, qvars>>
    \/ (\E t \in Tabs : TabSetStreak(t)) /\ UNCHANGED <<gvars, mvars, pvars, qvars>>

\* Two pages of the program on one storage.
SpecTabs == Init /\ [][NextTabs]_vars

(***************************************************************************)
(* updateStreak as a function of what the storage holds: every streak      *)
(* item, every ledger and every day, reachable or not.                     *)
(***************************************************************************)
AnyDates == 0 .. MaxDays + 1
AnyCounts == 0 .. 2
RowOf(d) == [score |-> 1, difficulty |-> "easy", date |-> d, timestamp |-> d * DayMs]
AnyRows == {<<RowOf(d)>> : d \in AnyDates}
               \cup {<<RowOf(d), RowOf(e)>> : d \in AnyDates, e \in AnyDates}
AnyLedgers == {EmptyLedger} \cup {<<[game |-> "stroop-test", rows |-> r]>> : r \in AnyRows}
AnyScoresItems ==
    {Stringified(l) : l \in AnyLedgers}
        \cup {Absent(EmptyLedger), Garbage(EmptyLedger), Blank(EmptyLedger)}
AnyStreakItems ==
    {Stringified([count |-> c, lastDate |-> l]) :
         c \in AnyCounts, l \in {NULL} \cup AnyDates}
        \cup {Absent(DefaultStreak), Garbage(DefaultStreak), Blank(DefaultStreak)}

InitAny ==
    /\ scoresItem \in AnyScoresItems
    /\ streakItem \in AnyStreakItems
    /\ clock \in {d * DayMs : d \in 1 .. MaxDays}
    /\ appended = NoHistory
    /\ dayStart = 0
    /\ last = NoCall
    /\ stroop = StroopIdle
    /\ flanker = FlankerIdle
    /\ sessions = [g \in Games |-> NoSession]
    /\ tabs = [t \in Tabs |-> IdleTab]
    /\ memory = MemoryIdle
    /\ pattern = PatternIdle
    /\ render = RenderIdle
    /\ recall = RecallIdle

\* Storage.updateStreak()
recompute ==
    /\ streakItem' = updateStreak(streakItem, scoresItem, clock)
    /\ last' = Call("updateStreak", "none", 0, "none")
    /\ UNCHANGED <<scoresItem, clock, appended, dayStart>>

NextRecompute ==
    \/ recompute /\ UNCHANGED nvars
    \/ Tick /\ UNCHANGED nvars

SpecRecompute == InitAny /\ [][NextRecompute]_vars

(***************************************************************************)
(* Memory Match (src/unnamed/part_000).  The cards of the grid are         *)
(* numbered; the shuffle of createCards only permutes them, and a click    *)
(* may take any card, so the model deals them in pairs: cards 2k - 1 and   *)
(* 2k carry symbol k.  A checkMatch callback holds the two cards it closed *)
(* over; once start() has emptied the grid they are cards of no board,     *)
(* and the callback is stale.                                              *)
(***************************************************************************)
\* config[difficulty].pairs, the harder board the larger
ConfigPairs(difficulty) == IF difficulty = "easy" THEN Pairs ELSE Pairs + 1
\* card.dataset.symbol
Symbol(card) == (card + 1) \div 2
\* { easy: 1, medium: 1.5, hard: 2 }, doubled
MemoryTwiceMultiplier(difficulty) ==
    CASE difficulty = "easy" -> 2
      [] difficulty = "medium" -> 3
      [] difficulty = "hard" -> 4

MemoryScore(mm) ==
    LET pairs == ConfigPairs(mm.difficulty)
        baseScore == pairs * 100
        moveBonus == IF pairs * 3 > mm.moves THEN (pairs * 3 - mm.moves) * 10 ELSE 0
        timeBonus == IF pairs * 10 > mm.seconds THEN (pairs * 10 - mm.seconds) * 2 ELSE 0
    IN  MathRoundDiv((baseScore + moveBonus + timeBonus)
                         * MemoryTwiceMultiplier(mm.difficulty), 2)

\* Cards flipped in a session: enough to clear the larger board after a
\* pair that did not match.
MaxFlips == 2 * (Pairs + 1) + 2

\* the sequence s without its k-th element
Without(s, k) == [i \in 1 .. Len(s) - 1 |-> IF i < k THEN s[i] ELSE s[i + 1]]

\* MemoryMatch.start
MemoryStart(difficulty) ==
    /\ memory.n < MaxSessions
    /\ memory' = [memory EXCEPT
           !.difficulty = difficulty,
           !.cards = 2 * ConfigPairs(difficulty),
           !.flippedCards = <<>>, !.flipped = {}, !.matched = {},
           !.matchedPairs = 0, !.moves = 0, !.seconds = 0,
           !.isLocked = FALSE, !.timer = TRUE,
           !.timeouts = [k \in 1 .. Len(@) |->
                            [match |-> @[k].match, stale |-> TRUE, cards |-> <<>>]],
           !.n = @ + 1, !.saves = 0, !.flips = 0]
    /\ UNCHANGED svars

\* a click on a card: MemoryMatch.flipCard, and checkMatch up to its
\* setTimeout
MemoryFlipCard(card) ==
    /\ card \in 1 .. memory.cards
    /\ memory.flips < MaxFlips
    /\ IF memory.isLocked \/ card \in memory.flipped \/ card \in memory.matched
       THEN UNCHANGED memory
       ELSE LET flippedCards == Append(memory.flippedCards, card)
                match == Symbol(flippedCards[1]) = Symbol(flippedCards[2])
            IN  IF Len(flippedCards) = 2
                THEN memory' = [memory EXCEPT
                         !.flipped = @ \cup {card},
                         !.flippedCards = flippedCards,
                         !.flips = @ + 1,
                         !.moves = @ + 1,
                         !.isLocked = TRUE,
                         !.timeouts = Append(@, [match |-> match, stale |-> FALSE,
                                                 cards |-> flippedCards])]
                ELSE memory' = [memory EXCEPT
                         !.flipped = @ \cup {card},
                         !.flippedCards = flippedCards,
                         !.flips = @ + 1]
    /\ UNCHANGED svars

\* MemoryMatch.endGame, from the object mm
MemoryEndGame(mm) ==
    /\ memory' = [mm EXCEPT !.timer = FALSE, !.saves = @ + 1,
                            !.flippedCards = <<>>, !.isLocked = FALSE]
    /\ saveScoreAny("memory-match", MemoryScore(mm), mm.difficulty)

\* the k-th pending timeout of checkMatch expires
MemoryCheckMatch(k) ==
    /\ k \in 1 .. Len(memory.timeouts)
    /\ LET to == memory.timeouts[k]
           own == IF to.stale THEN {} ELSE {to.cards[1], to.cards[2]}
           rest == [memory EXCEPT !.timeouts = Without(@, k)]
       IN  IF to.match
           THEN LET mm == [rest EXCEPT !.matched = @ \cup own,
                                       !.matchedPairs = @ + 1]
                IN  IF mm.matchedPairs = ConfigPairs(mm.difficulty)
                    THEN MemoryEndGame(mm)
                    ELSE /\ memory' = [mm EXCEPT !.flippedCards = <<>>,
                                                 !.isLocked = FALSE]
                         /\ UNCHANGED svars
           ELSE /\ memory' = [rest EXCEPT !.flipped = @ \ own,
                                          !.flippedCards = <<>>,
                                          !.isLocked = FALSE]
                /\ UNCHANGED svars

\* a tick of the interval of MemoryMatch.start
MemoryTimer ==
    /\ memory.timer
    /\ memory.seconds < Seconds
    /\ memory' = [memory EXCEPT !.seconds = @ + 1]
    /\ UNCHANGED svars

NextMemory ==
    \/ (\E d \in Difficulties : MemoryStart(d)) /\ UNCHANGED <<gvars, tvars, pvars, qvars>>
    \/ (\E c \in 1 .. 2 * (Pairs + 1) : MemoryFlipCard(c)) /\ UNCHANGED <<gvars, tvars, pvars, qvars>>
    \/ (\E k \in 1 .. 2 * MaxSessions : MemoryCheckMatch(k)) /\ UNCHANGED <<gvars, tvars, pvars, qvars>>
    \/ MemoryTimer /\ UNCHANGED <<gvars, tvars, pvars, qvars>>

\* Memory Match played on the store, the clock standing still.
SpecMemory == Init /\ [][NextMemory]_vars

(***************************************************************************)
(* Pattern Puzzle (src/unnamed/part_002).  A puzzle is a sequence of nine  *)
(* cells, the ninth hidden; the option buttons stay in the page until the  *)
(* next puzzle is rendered or the game ends.  Math.random() is a free      *)
(* choice among the values the expression around it can take.              *)
(***************************************************************************)
\* config[difficulty].lives, the easy game the longer one
ConfigLives(difficulty) == IF difficulty = "easy" THEN Lives + 1 ELSE Lives
\* config[difficulty].optionCount
OptionCount(difficulty) ==
    CASE difficulty = "easy" -> 3
      [] difficulty = "medium" -> 4
      [] difficulty = "hard" -> 5
\* { easy: 1, medium: 1.5, hard: 2 }, doubled
PatternTwiceMultiplier(difficulty) ==
    CASE difficulty = "easy" -> 2
      [] difficulty = "medium" -> 3
      [] difficulty = "hard" -> 4

\* patterns.shapes.symbols.  A symbol is a string of one character, and is
\* modelled by the code point of the character: black circle, square,
\* triangle, diamond and star, then the white ones.
AllSymbols ==
    <<9679, 9632, 9650, 9670, 9733,
      9675, 9633, 9651, 9671, 9734>>
\* the symbols a random index reaches
Symbols == SubSeq(AllSymbols, 1, NSymbols)
SymbolSet == {Symbols[i] : i \in 1 .. Len(Symbols)}

\* Object.keys(this.patterns)
PatternTypes == <<"numbers", "shapes", "alternating", "math">>

\* patterns.numbers.generate(level): every pattern it can return
GenerateNumbers(level) ==
    {[sequence |-> [i \in 1 .. 9 |-> start + step * (i - 1)],
      answer |-> start + step * 8, type |-> "number"] :
         start \in 1 .. MaxStart, step \in 1 .. level + 2}

\* patterns.shapes.generate(level)
GenerateShapes(level) ==
    LET third == 2 + level \div 3
        patternLength == IF third < 4 THEN third ELSE 4
        distinct == {p \in [1 .. patternLength -> SymbolSet] :
                        \A i, j \in 1 .. patternLength : p[i] = p[j] => i = j}
    IN  {[sequence |-> [i \in 1 .. 9 |-> p[((i - 1) % patternLength) + 1]],
          answer |-> p[(8 % patternLength) + 1], type |-> "shape"] :
             p \in distinct}

\* patterns.alternating.generate(level)
GenerateAlternating(level) ==
    LET \* white circle, black circle, then the half-black circles
        symbols == <<9675, 9679>>
                       \o (IF level > 2 THEN <<9680>> ELSE <<>>)
                       \o (IF level > 5 THEN <<9681>> ELSE <<>>)
    IN  {[sequence |-> [i \in 1 .. 9 |-> symbols[((i - 1) % Len(symbols)) + 1]],
          answer |-> symbols[(8 % Len(symbols)) + 1], type |-> "shape"]}

\* patterns.math.generate(level)
GenerateMath(level) ==
    LET Draws == 1 .. MaxAddend
    IN  {[sequence |-> <<a0, b0, a0 + b0,
                         a1 + 2, b1, a1 + 2 + b1,
                         a2 + 4, b2, a2 + 4 + b2>>,
          answer |-> a2 + 4 + b2, type |-> "number"] :
             a0 \in Draws, b0 \in Draws, a1 \in Draws, b1 \in Draws,
             a2 \in Draws, b2 \in Draws}

\* this.patterns[patternType].generate(this.level)
Generate(level) ==
    LET patternType == PatternTypes[((level - 1) % Len(PatternTypes)) + 1]
    IN  CASE patternType = "numbers" -> GenerateNumbers(level)
          [] patternType = "shapes" -> GenerateShapes(level)
          [] patternType = "alternating" -> GenerateAlternating(level)
          [] patternType = "math" -> GenerateMath(level)

\* the values wrongAnswer takes in the loop of renderOptions
WrongAnswers(cp) ==
    IF cp.type = "number"
    THEN {cp.answer + (IF offset = 0 THEN 3 ELSE offset) : offset \in -2 .. 2}
    ELSE SymbolSet

\* renderOptions(): the sets of buttons it can leave in #pp-options
renderOptions(cp, difficulty) ==
    {{cp.answer} \cup W : W \in {V \in SUBSET (WrongAnswers(cp) \ {cp.answer}) :
                                    Cardinality(V) = OptionCount(difficulty) - 1}}

\* Math.round(points * this.getDifficultyMultiplier())
PatternPoints(level, streak, difficulty) ==
    MathRoundDiv((10 + level * 5) * (10 + streak) * PatternTwiceMultiplier(difficulty), 20)

\* PatternPuzzle.nextPuzzle, from the object pp.  Of currentPattern the
\* object keeps what its handlers read: the answer and the type.
PatternRender(pp) ==
    IF ~pp.isPlaying
    THEN pattern' = pp
    ELSE \E cp \in {[answer |-> g.answer, type |-> g.type] : g \in Generate(pp.level)} :
         \E options \in renderOptions(cp, pp.difficulty) :
             pattern' = [pp EXCEPT
                 !.currentPattern = cp,
                 !.options = options, !.mystery = TRUE,
                 !.puzzles = @ + 1, !.credits = 0]

\* PatternPuzzle.start
PatternStart(difficulty) ==
    /\ pattern.n < MaxSessions
    /\ PatternRender([pattern EXCEPT
           !.difficulty = difficulty, !.level = 1, !.score = 0, !.streak = 0,
           !.lives = ConfigLives(difficulty), !.isPlaying = TRUE,
           !.n = @ + 1, !.saves = 0, !.wrong = 0, !.puzzles = 0])
    /\ UNCHANGED svars

\* the timeout of handleAnswer expires: PatternPuzzle.nextPuzzle
PatternNextPuzzle ==
    /\ pattern.pending > 0
    /\ PatternRender([pattern EXCEPT !.pending = @ - 1])
    /\ UNCHANGED svars

\* PatternPuzzle.endGame, from the object pp
PatternEndGame(pp) ==
    /\ pattern' = [pp EXCEPT !.isPlaying = FALSE, !.options = {}, !.saves = @ + 1]
    /\ saveScoreAny("pattern-puzzle", pp.score, pp.difficulty)

\* a click on an option button: PatternPuzzle.handleAnswer(answer).
\* document.querySelector('.pattern-cell.mystery') is null once a correct
\* answer has taken the class from the cell: the first statement that
\* dereferences it throws, and the handler ends there.  The model takes a
\* correct answer below MaxLevel and a wrong one while lives is above
\* -Lives.
PatternHandleAnswer(answer) ==
    /\ answer \in pattern.options
    /\ IF ~pattern.isPlaying
       THEN UNCHANGED pattern /\ UNCHANGED svars
       ELSE IF answer = pattern.currentPattern.answer
       THEN /\ pattern.level < MaxLevel
            /\ LET streak == pattern.streak + 1
                   pp == [pattern EXCEPT
                       !.streak = streak,
                       !.score = @ + PatternPoints(pattern.level, streak,
                                                   pattern.difficulty),
                       !.level = @ + 1,
                       !.credits = @ + 1]
               IN  IF pattern.mystery
                   THEN pattern' = [pp EXCEPT !.mystery = FALSE, !.pending = @ + 1]
                   ELSE pattern' = pp
            /\ UNCHANGED svars
       ELSE /\ pattern.lives > -Lives
            /\ LET pp == [pattern EXCEPT !.streak = 0, !.lives = @ - 1,
                                         !.wrong = @ + 1]
               IN  IF ~pattern.mystery
                   THEN pattern' = pp /\ UNCHANGED svars
                   ELSE IF pp.lives <= 0
                   THEN PatternEndGame(pp)
                   ELSE pattern' = pp /\ UNCHANGED svars

NextPattern ==
    \/ (\E d \in Difficulties : PatternStart(d))
          /\ UNCHANGED <<gvars, tvars, mvars, render, qvars>>
    \/ (\E a \in pattern.options : PatternHandleAnswer(a))
          /\ UNCHANGED <<gvars, tvars, mvars, render, qvars>>
    \/ PatternNextPuzzle /\ UNCHANGED <<gvars, tvars, mvars, render, qvars>>

\* Pattern Puzzle played on the store, the clock standing still.
SpecPattern == Init /\ [][NextPattern]_vars

(***************************************************************************)
(* renderOptions of Pattern Puzzle, one iteration of its loops at a time.  *)
(* An iteration that draws an option already in allOptions changes         *)
(* nothing; the draws are fair, so the loop does not draw such options     *)
(* forever while another can be drawn.                                     *)
(***************************************************************************)
AllDifficulties == {"easy", "medium", "hard"}

\* the elements of the sequence s
Range(s) == {s[i] : i \in 1 .. Len(s)}

\* renderOptions at its loop, called by nextPuzzle at a level: the pattern
\* is any the level generates and allOptions holds the correct answer
RenderCalled(level, difficulty) ==
    {[pc |-> "loop", difficulty |-> difficulty, currentPattern |-> cp,
      allOptions |-> <<cp.answer>>, i |-> 0] : cp \in Generate(level)}

\* every call of renderOptions
InitOptions ==
    /\ scoresItem = Stringified(EmptyLedger)
    /\ streakItem = Stringified(DefaultStreak)
    /\ clock = StartMs
    /\ appended = NoHistory
    /\ dayStart = 0
    /\ last = NoCall
    /\ stroop = StroopIdle
    /\ flanker = FlankerIdle
    /\ sessions = [g \in Games |-> NoSession]
    /\ tabs = [t \in Tabs |-> IdleTab]
    /\ memory = MemoryIdle
    /\ pattern = PatternIdle
    /\ render \in UNION {RenderCalled(level, d) :
                             level \in 1 .. MaxLevel + 1, d \in AllDifficulties}
    /\ recall = RecallIdle

\* an iteration of the loop that pushes whatever it drew
RenderWrongAnswer_NoIncludes ==
    /\ render.pc = "loop"
    /\ Len(render.allOptions) < OptionCount(render.difficulty)
    /\ \E wrongAnswer \in WrongAnswers(render.currentPattern) :
           render' = [render EXCEPT !.allOptions = Append(@, wrongAnswer)]

\* an iteration of the loop of renderOptions
RenderWrongAnswer ==
    /\ render.pc = "loop"
    /\ Len(render.allOptions) < OptionCount(render.difficulty)
    /\ \E wrongAnswer \in WrongAnswers(render.currentPattern) :
           IF wrongAnswer \in Range(render.allOptions)
           THEN UNCHANGED render
           ELSE render' = [render EXCEPT !.allOptions = Append(@, wrongAnswer)]

\* the sequence s, its elements at i and j exchanged
Swapped(s, i, j) ==
    [k \in 1 .. Len(s) |-> IF k = i THEN s[j] ELSE IF k = j THEN s[i] ELSE s[k]]

\* an iteration of the shuffle of renderOptions, the first one leaving the
\* loop of the wrong answers; i counts from 0 as in the source
RenderShuffle ==
    /\ render.pc \in {"loop", "shuffle"}
    /\ Len(render.allOptions) >= OptionCount(render.difficulty)
    /\ LET i == IF render.pc = "loop" THEN Len(render.allOptions) - 1 ELSE render.i
       IN  /\ i > 0
           /\ \E j \in 0 .. i :
                  render' = [render EXCEPT
                      !.pc = "shuffle", !.i = i - 1,
                      !.allOptions = Swapped(@, i + 1, j + 1)]

\* renderOptions after the shuffle: a button for each option
RenderButtons ==
    /\ render.pc = "shuffle" /\ render.i = 0
    /\ render' = [render EXCEPT !.pc = "done"]

\* all but the variable of renderOptions
orvars == <<svars, gvars, tvars, mvars, pattern, qvars>>

NextOptions ==
    \/ RenderWrongAnswer /\ UNCHANGED orvars
    \/ RenderShuffle /\ UNCHANGED orvars
    \/ RenderButtons /\ UNCHANGED orvars

\* renderOptions on every pattern of every level, its random draws fair
SpecOptions ==
    /\ InitOptions /\ [][NextOptions]_vars
    /\ WF_vars(RenderWrongAnswer /\ UNCHANGED orvars)
    /\ WF_vars(RenderShuffle /\ UNCHANGED orvars)
    /\ WF_vars(RenderButtons /\ UNCHANGED orvars)

(***************************************************************************)
(* Sequence Recall (src/unnamed/part_001).  The buttons of the input panel *)
(* are clicked while the panel is displayed.  An interval of playSequence  *)
(* keeps its own counter i; the callbacks of timeouts and intervals read   *)
(* the fields of the object as they are when they run.                     *)
(***************************************************************************)
\* config[difficulty].items, the easy game the smaller one
ConfigItems(difficulty) == IF difficulty = "easy" THEN Items ELSE Items + 1
\* config[difficulty].startLength, the easy game the shorter one
ConfigStartLength(difficulty) ==
    IF difficulty = "easy" THEN StartLength ELSE StartLength + 1
\* { easy: 1, medium: 1.5, hard: 2 }, doubled
RecallTwiceMultiplier(difficulty) ==
    CASE difficulty = "easy" -> 2
      [] difficulty = "medium" -> 3
      [] difficulty = "hard" -> 4

\* SequenceRecall.nextRound, from the object sr: one item is pushed, then
\* items up to the minimum length
RecallNextRoundOf(sr) ==
    LET items == 0 .. ConfigItems(sr.difficulty) - 1
        length == IF Len(sr.sequence) + 1 < ConfigStartLength(sr.difficulty)
                  THEN ConfigStartLength(sr.difficulty)
                  ELSE Len(sr.sequence) + 1
    IN  \E pushed \in [Len(sr.sequence) + 1 .. length -> items] :
            recall' = [sr EXCEPT
                !.userInput = <<>>,
                !.sequence = [k \in 1 .. length |->
                                 IF k <= Len(sr.sequence) THEN sr.sequence[k]
                                 ELSE pushed[k]],
                !.inputShown = FALSE,
                !.playPending = @ + 1]

\* SequenceRecall.start
RecallStart(difficulty) ==
    /\ recall.n < MaxSessions
    /\ RecallNextRoundOf([recall EXCEPT
           !.difficulty = difficulty, !.sequence = <<>>, !.userInput = <<>>,
           !.level = 1, !.score = 0, !.isPlaying = TRUE,
           !.n = @ + 1, !.saves = 0, !.op = "start"])
    /\ UNCHANGED svars

\* the timeout of handleInput expires: SequenceRecall.nextRound
RecallNextRound ==
    /\ recall.nextPending > 0
    /\ RecallNextRoundOf([recall EXCEPT !.nextPending = @ - 1, !.op = "nextRound"])
    /\ UNCHANGED svars

\* the timeout of nextRound expires: SequenceRecall.playSequence
RecallPlaySequence ==
    /\ recall.playPending > 0
    /\ recall' = [recall EXCEPT
           !.playPending = @ - 1,
           !.isShowingSequence = TRUE,
           !.intervals = Append(@, 0),
           !.op = "playSequence"]
    /\ UNCHANGED svars

\* a tick of the k-th interval of playSequence
RecallInterval(k) ==
    /\ k \in 1 .. Len(recall.intervals)
    /\ LET i == recall.intervals[k]
       IN  IF i < Len(recall.sequence)
           THEN recall' = [recall EXCEPT !.intervals[k] = i + 1, !.op = "interval"]
           ELSE recall' = [recall EXCEPT
                    !.intervals = Without(@, k),
                    !.isShowingSequence = FALSE,
                    !.inputShown = TRUE,
                    !.op = "interval"]
    /\ UNCHANGED svars

\* SequenceRecall.endGame, from the object sr
RecallEndGame(sr) ==
    /\ recall' = [sr EXCEPT !.isPlaying = FALSE, !.inputShown = FALSE,
                            !.saves = @ + 1]
    /\ saveScoreAny("sequence-recall", sr.score, sr.difficulty)

\* a click on a button of the input panel: SequenceRecall.handleInput(index).
\* The model takes the input that completes a round below MaxLevel.
RecallHandleInput(index) ==
    /\ recall.inputShown
    /\ index \in 0 .. ConfigItems(recall.difficulty) - 1
    /\ IF recall.isShowingSequence \/ ~recall.isPlaying
       THEN recall' = [recall EXCEPT !.op = "handleInput"] /\ UNCHANGED svars
       ELSE LET userInput == Append(recall.userInput, index)
                currentIndex == Len(userInput)
                sr == [recall EXCEPT !.userInput = userInput, !.op = "handleInput"]
            IN  IF currentIndex > Len(sr.sequence)
                   \/ userInput[currentIndex] # sr.sequence[currentIndex]
                THEN RecallEndGame(sr)
                ELSE IF Len(userInput) = Len(sr.sequence)
                THEN /\ recall.level < MaxLevel
                     /\ recall' = [sr EXCEPT
                            !.level = @ + 1,
                            !.score = @ + Len(sr.sequence) * 5
                                              * RecallTwiceMultiplier(sr.difficulty),
                            !.inputShown = FALSE,
                            !.nextPending = @ + 1]
                     /\ UNCHANGED svars
                ELSE recall' = sr /\ UNCHANGED svars

NextRecall ==
    \/ (\E d \in Difficulties : RecallStart(d))
          /\ UNCHANGED <<gvars, tvars, mvars, pvars>>
    \/ RecallNextRound /\ UNCHANGED <<gvars, tvars, mvars, pvars>>
    \/ RecallPlaySequence /\ UNCHANGED <<gvars, tvars, mvars, pvars>>
    \/ (\E k \in 1 .. 2 * MaxSessions * MaxLevel : RecallInterval(k))
          /\ UNCHANGED <<gvars, tvars, mvars, pvars>>
    \/ (\E i \in 0 .. Items : RecallHandleInput(i))
          /\ UNCHANGED <<gvars, tvars, mvars, pvars>>

\* Sequence Recall played on the store, the clock standing still.
SpecRecall == Init /\ [][NextRecall]_vars

(***************************************************************************)
(* Vocabulary of the properties.                                           *)
(***************************************************************************)
Today == getDateString(clock)
Yesterday == Today - 1
Stored == ParseStreak(streakItem)
PlayedToday == getTodayCount(scoresItem, clock) > 0
IsDate(d) == d # NULL
\* lastDate lies two or more days before today
Lapsed(d) == IsDate(d) /\ d <= Today - 2

\* the last n elements of h, all of h when it has fewer
Newest(h, n) ==
    LET k == IF Len(h) < n THEN Len(h) ELSE n
    IN  [i \in 1 .. k |-> h[Len(h) - k + i]]

\* the days on which an outcome was recorded since the store was last empty
PlayedDays ==
    UNION {{appended[g][i].date : i \in 1 .. Len(appended[g])} : g \in Games}

\* the number of consecutive days, ending with day d, that are in PlayedDays
RECURSIVE Run(_)
Run(d) == IF d \in PlayedDays THEN 1 + Run(d - 1) ELSE 0

(***************************************************************************)
(* C1  Cap invariant.  For every game, the stored sequence holds at most   *)
(* Cap records and is exactly the newest Cap of the records appended to    *)
(* that game (all of them while fewer were appended), in append order.     *)
(***************************************************************************)
C1_CapInvariant ==
    \A g \in Games :
        /\ Len(getScores(scoresItem, g)) <= Cap
        /\ getScores(scoresItem, g) = Newest(appended[g], Cap)

\* a record was evicted and the survivors differ from the evicted one
C1_Witness ==
    \E g \in Games :
        /\ last.op = "saveScore" /\ last.game = g
        /\ Len(appended[g]) > Cap
        /\ appended[g][1] # appended[g][Len(appended[g])]
        /\ Len(getScores(scoresItem, g)) = Cap

C4_StreakBreak ==
    (/\ last.op = "init"
     /\ last.streakKind = "ok"
     /\ ~last.played
     /\ (last.streak.lastDate = NULL \/ Lapsed(last.streak.lastDate)))
    => /\ streakItem = Stringified([count |-> 0,
                                    lastDate |-> last.streak.lastDate])
       /\ getStreak(streakItem) = 0

C4_Witness ==
    /\ last.op = "init"
    /\ ~last.played
    /\ Lapsed(last.streak.lastDate)
    /\ last.streak.count = 2
    /\ getStreak(streakItem) = 0
    /\ Stored.lastDate = last.streak.lastDate

(***************************************************************************)
(* C5  Streak grace.  A recomputation at init with no record dated today   *)
(* and a stored lastDate of today or yesterday leaves count and lastDate   *)
(* as they were.                                                           *)
(***************************************************************************)
C5_StreakGrace ==
    (/\ last.op = "init"
     /\ last.streakKind = "ok"
     /\ ~last.played
     /\ last.streak.lastDate \in {Today, Yesterday})
    => streakItem = Stringified(last.streak)

C5_Witness ==
    /\ last.op = "init"
    /\ ~last.played
    /\ last.streak.lastDate = Yesterday
    /\ last.streak.count = 2
    /\ Stored = last.streak

(***************************************************************************)
(* C6  Idempotent same-day.  During one calendar day the count rises by    *)
(* at most 1 over its value when the day began, init never raises it, and  *)
(* a saveScore made when a record is already dated today leaves count and  *)
(* lastDate unchanged.                                                     *)
(***************************************************************************)
C6_SameDayIdempotent ==
    /\ getStreak(streakItem) <= dayStart + 1
    /\ last.op = "init" => getStreak(streakItem) <= last.streak.count
    /\ (last.op = "saveScore" /\ last.played)
          => streakItem = Stringified(last.streak)

\* the third outcome of a day that continued a streak, for another game
C6_Witness ==
    /\ last.op = "saveScore"
    /\ last.played
    /\ getTodayCount(scoresItem, clock) >= 2
    /\ \E g \in Games : g # last.game /\ Len(getScores(scoresItem, g)) > 0
    /\ dayStart = 1
    /\ getStreak(streakItem) = 2

C8_StaleStreakIsZero ==
    (Lapsed(Stored.lastDate) /\ ~PlayedToday) => getStreak(streakItem) = 0

(***************************************************************************)
(* C8, amended.  The same, once a handler of Storage (init, saveScore,     *)
(* clearAll) has run since the day last advanced: getStreak() returns the  *)
(* stored count and does not recompute.                                    *)
(***************************************************************************)
C8_LapsedStreakIsZeroOnceRecomputed ==
    (last.op # "none" /\ Lapsed(Stored.lastDate) /\ ~PlayedToday)
    => getStreak(streakItem) = 0

C8_Witness ==
    /\ last.op = "init"
    /\ last.streak.count = 2
    /\ Lapsed(Stored.lastDate)
    /\ ~PlayedToday
    /\ getStreak(streakItem) = 0

(***************************************************************************)
(* C9  Every recomputation persists StreakState.  The five rules of the    *)
(* streak tracker, as a function of the stored state (the zeroed streak    *)
(* when the item is missing or does not parse), today and whether a        *)
(* record is dated today; after init, saveScore and clearAll the streak    *)
(* item holds their result.                                                *)
(***************************************************************************)
FiveRules(cur, today, playedToday) ==
    CASE playedToday /\ cur.lastDate = today -> cur
      [] playedToday /\ cur.lastDate = today - 1 ->
             [count |-> cur.count + 1, lastDate |-> today]
      [] playedToday /\ cur.lastDate \notin {today, today - 1} ->
             [count |-> 1, lastDate |-> today]
      [] ~playedToday /\ cur.lastDate \notin {today, today - 1} ->
             [count |-> 0, lastDate |-> cur.lastDate]
      [] ~playedToday /\ cur.lastDate \in {today, today - 1} -> cur

Rows(g) == getScores(scoresItem, g)
ScoreSet(g) == {Rows(g)[i].score : i \in 1 .. Len(Rows(g))}
ScoreSetOf(g, d) ==
    {Rows(g)[i].score : i \in {j \in 1 .. Len(Rows(g)) : Rows(g)[j].difficulty = d}}
\* v is the greatest element of S, or 0 when S is empty
GreatestOrZero(v, S) ==
    IF S = {} THEN v = 0 ELSE v \in S /\ \A x \in S : x <= v
\* the sum of the scores of rows 1..k of g
RECURSIVE ScoreSum(_, _)
ScoreSum(g, k) == IF k = 0 THEN 0 ELSE Rows(g)[k].score + ScoreSum(g, k - 1)

(***************************************************************************)
(* C11  Best-score correctness.  getBestScore(g) is the greatest score of  *)
(* the rows of g, getBestScore(g, d) the greatest score of the rows of g   *)
(* with difficulty d, and each is 0 when there is no such row.             *)
(***************************************************************************)
C11_BestScore ==
    \A g \in Games :
        /\ GreatestOrZero(getBestScore(scoresItem, g, "none"), ScoreSet(g))
        /\ \A d \in Difficulties :
               GreatestOrZero(getBestScore(scoresItem, g, d), ScoreSetOf(g, d))

\* g has a row with a positive score, and none with difficulty d
C11_Witness ==
    \E g \in Games, d \in Difficulties :
        /\ getBestScore(scoresItem, g, "none") = 1
        /\ ScoreSetOf(g, d) = {}
        /\ getBestScore(scoresItem, g, d) = 0

(***************************************************************************)
(* C12  Average correctness.  getGameStats(g).averageScore is the integer  *)
(* nearest to the mean of the scores of g, a mean of a + 1/2 giving a + 1, *)
(* and 0 when g has no rows.                                               *)
(***************************************************************************)
C12_Average ==
    \A g \in Games :
        LET n == Len(Rows(g))
            sum == ScoreSum(g, n)
            a == getGameStats(scoresItem, g).averageScore
        IN  IF n = 0 THEN a = 0
            ELSE /\ 2 * a * n - n <= 2 * sum
                 /\ 2 * sum < 2 * a * n + n

\* a mean that ends in one half
C12_Witness ==
    \E g \in Games :
        LET n == Len(Rows(g))
            a == getGameStats(scoresItem, g).averageScore
        IN  n > 0 /\ 2 * ScoreSum(g, n) = (2 * a - 1) * n

(***************************************************************************)
(* C13  getGameStats(g) agrees with the ledger: played is the number of    *)
(* rows of g, bestScore is getBestScore(g), lastPlayed is the date of the  *)
(* record appended to g last, null when g has none.                        *)
(***************************************************************************)
C13_StatsConsistent ==
    \A g \in Games :
        LET stats == getGameStats(scoresItem, g)
        IN  /\ stats.played = Len(Rows(g))
            /\ stats.bestScore = getBestScore(scoresItem, g, "none")
            /\ stats.lastPlayed =
                   IF appended[g] = <<>> THEN NULL
                   ELSE appended[g][Len(appended[g])].date

\* rows of two different days
C13_Witness ==
    \E g \in Games :
        /\ Len(Rows(g)) >= 2
        /\ Rows(g)[1].date # Rows(g)[Len(Rows(g))].date
        /\ getGameStats(scoresItem, g).lastPlayed = Today
        /\ getGameStats(scoresItem, g).bestScore = 1

(***************************************************************************)
(* C14  Corrupt or missing items are never surfaced.  While the scores     *)
(* item is missing or does not parse every query answers as on the empty   *)
(* ledger, and while the streak item is, getStreak() is 0; init and        *)
(* saveScore started from such an item finish with the result they have    *)
(* on the empty ledger and the zeroed streak.                              *)
(***************************************************************************)
C14_CorruptNeverSurfaced ==
    /\ scoresItem.kind # "ok" =>
          /\ getTotalCount(scoresItem) = 0
          /\ getTodayCount(scoresItem, clock) = 0
          /\ \A g \in Games :
                 /\ Rows(g) = <<>>
                 /\ getBestScore(scoresItem, g, "none") = 0
                 /\ \A d \in Difficulties : getBestScore(scoresItem, g, d) = 0
                 /\ getGameStats(scoresItem, g) = NoStats
    /\ streakItem.kind # "ok" => getStreak(streakItem) = 0
    /\ (last.op = "init" /\ last.scoresKind # "ok") => getTotalCount(scoresItem) = 0
    /\ (last.op = "init" /\ last.streakKind # "ok") =>
          streakItem = IF PlayedToday
                       THEN Stringified([count |-> 1, lastDate |-> Today])
                       ELSE Stringified(DefaultStreak)
    /\ (last.op = "saveScore" /\ last.scoresKind # "ok") =>
          scoresItem = Stringified(
              <<[game |-> last.game,
                 rows |-> <<[score |-> last.score, difficulty |-> last.difficulty,
                             date |-> Today, timestamp |-> clock]>>]>>)
    /\ (last.op = "saveScore" /\ last.streakKind # "ok") =>
          streakItem = Stringified([count |-> 1, lastDate |-> Today])

\* saveScore found a scores item that does not parse and no streak item
C14_Witness ==
    /\ last.op = "saveScore"
    /\ last.scoresKind = "garbage"
    /\ last.streakKind = "absent"
    /\ getTotalCount(scoresItem) = 1
    /\ getStreak(streakItem) = 1

C16_ReadsDoNotMutate ==
    [][last'.op \in ReadOps => (scoresItem' = scoresItem /\ streakItem' = streakItem)]_vars

\* getStreak() was called on a streak item that does not parse
C16_Witness ==
    /\ last.op = "getStreak"
    /\ streakItem.kind = "garbage"
    /\ scoresItem.kind = "ok"
    /\ getTotalCount(scoresItem) > 0

(***************************************************************************)
(* C17  Append-only.  saveScore(g, ...) leaves the rows of every other     *)
(* game as they are; the rows of g become the old rows, less some of the   *)
(* oldest, followed by the new record, and rows are dropped only when the  *)
(* result is at the cap.                                                   *)
(***************************************************************************)
C17_AppendOnly ==
    [][last'.op = "saveScore" =>
         LET g == last'.game
             old == getScores(scoresItem, g)
             new == getScores(scoresItem', g)
             rec == [score |-> last'.score, difficulty |-> last'.difficulty,
                     date |-> getDateString(clock), timestamp |-> clock]
         IN  /\ \A h \in Games \ {g} :
                    getScores(scoresItem', h) = getScores(scoresItem, h)
             /\ \E k \in 0 .. Len(old) :
                    /\ new = SubSeq(old, k + 1, Len(old)) \o <<rec>>
                    /\ k > 0 => Len(new) = Cap
                    /\ k <= 1]_vars

\* a record was appended to a game with a row while the other game has rows
C17_Witness ==
    /\ last.op = "saveScore"
    /\ Len(Rows(last.game)) >= 2
    /\ \E h \in Games \ {last.game} : Len(Rows(h)) >= 1

(***************************************************************************)
(* C19  getTotalCount() is the number of saveScore calls since the ledger  *)
(* was last empty.                                                         *)
(***************************************************************************)
C19_TotalIsNumberOfCalls ==
    getTotalCount(scoresItem) = SumLen(appended, Games)

(***************************************************************************)
(* C20  getTodayScores() is exactly the rows dated today, of all games,    *)
(* each tagged with its game; getTodayCount() is its length, never more    *)
(* than getTotalCount(), and 0 while no outcome was recorded today.        *)
(***************************************************************************)
TodayRows == {<<g, i>> \in Games \X (1 .. Cap) :
                 i <= Len(Rows(g)) /\ Rows(g)[i].date = Today}
Tagged(g, i) ==
    [score |-> Rows(g)[i].score, difficulty |-> Rows(g)[i].difficulty,
     date |-> Rows(g)[i].date, timestamp |-> Rows(g)[i].timestamp, game |-> g]

C20_TodayScores ==
    LET ts == getTodayScores(scoresItem, clock)
    IN  /\ Len(ts) = Cardinality(TodayRows)
        /\ \A k \in 1 .. Len(ts) : \E p \in TodayRows : ts[k] = Tagged(p[1], p[2])
        /\ \A p \in TodayRows : \E k \in 1 .. Len(ts) : ts[k] = Tagged(p[1], p[2])
        /\ getTodayCount(scoresItem, clock) = Len(ts)
        /\ getTodayCount(scoresItem, clock) <= getTotalCount(scoresItem)
        /\ Today \notin PlayedDays => getTodayCount(scoresItem, clock) = 0

\* rows of today for both games, and an older row
C20_Witness ==
    /\ \A g \in Games : \E i \in 1 .. Len(Rows(g)) : Rows(g)[i].date = Today
    /\ \E g \in Games : \E i \in 1 .. Len(Rows(g)) : Rows(g)[i].date < Today
    /\ getTodayCount(scoresItem, clock) = 2

(***************************************************************************)
(* C18  In the Stroop and Flanker games every started session that ends    *)
(* has called Storage.saveScore exactly once, whether the countdown or the *)
(* round counter ended it, and a session still played has called it not at *)
(* all, whatever the order of ticks, answers and pending timeouts.         *)
(***************************************************************************)
Playing(game) ==
    IF game = "stroop-test" THEN stroop.isPlaying ELSE flanker.isPlaying

C18_SavedOncePerSession ==
    \A g \in Games :
        LET s == sessions[g]
        IN  /\ s.saves = IF s.n > 0 /\ ~Playing(g) THEN 1 ELSE 0
            /\ s.saves = 1 <=> s.cause \in {"timer", "rounds"}
            /\ Len(appended[g]) <= s.n
            /\ s.saves = 1 => /\ Len(appended[g]) >= 1
                              /\ last.op = "saveScore"

\* a Stroop session ended by its rounds and a Flanker session ended by its
\* countdown while a timeout was pending, each saved once
C18_Witness ==
    /\ sessions["stroop-test"].cause = "rounds"
    /\ sessions["stroop-test"].saves = 1
    /\ sessions["flanker-task"].cause = "timer"
    /\ sessions["flanker-task"].saves = 1
    /\ flanker.nextPending + flanker.fixationPending > 0
    /\ flanker.correct + flanker.incorrect > 0

(***************************************************************************)
(* C21  Immediately after any saveScore returns, the stored lastDate is    *)
(* the date stamped on the record just appended and the stored count is    *)
(* at least 1: the recomputation has seen the new record.                  *)
(***************************************************************************)
JustAppended == appended[last.game][Len(appended[last.game])]

C21_RecomputationSeesNewRecord ==
    last.op = "saveScore" =>
        /\ Stored.lastDate = JustAppended.date
        /\ Stored.count >= 1

(***************************************************************************)
(* C22  saveScore validates nothing: called with an unknown game id, a     *)
(* negative score or a difficulty outside {easy, medium, hard} it raises   *)
(* no error and appends the record as for a valid input, creating the      *)
(* game's sequence if absent and advancing the streak by the usual rules.  *)
(***************************************************************************)
C22_AnyInputAppended ==
    last.op \in {"saveScore", "saveScore TypeError"} =>
        /\ last.op = "saveScore"
        /\ Len(Rows(last.game)) >= 1
        /\ Rows(last.game)[Len(Rows(last.game))] =
               [score |-> last.score, difficulty |-> last.difficulty,
                date |-> Today, timestamp |-> clock]
        /\ getTotalCount(scoresItem) >= last.total
        /\ streakItem = Stringified(FiveRules(last.streak, Today, TRUE))

(***************************************************************************)
(* C23  Two pages on one storage, last writer wins.  When the saveScore    *)
(* calls of two pages interleave, the ledger left in the storage is the    *)
(* one written last: what the last writer read plus its own record.        *)
(* Nothing is merged: of the records the other page wrote between the      *)
(* last writer's read and its write, none is in the ledger.                *)
(***************************************************************************)
\* the rows of the ledger obj that hold the score v
RowsWith(obj, v) ==
    {p \in (1 .. Len(obj)) \X (1 .. Cap) :
        p[2] <= Len(obj[p[1]].rows) /\ obj[p[1]].rows[p[2]].score = v}

C23_LastWriterWins ==
    \A t \in Tabs :
        tabs[t].lastWriter /\ tabs[t].pc # "pushed" =>
            /\ scoresItem = Stringified(Pushed(tabs[t].snapshot, tabs[t].game,
                                               tabs[t].rec))
            /\ \A u \in Tabs \ {t} :
                   Cardinality(RowsWith(getAllScores(scoresItem), u))
                       <= Cardinality(RowsWith(tabs[t].snapshot, u))

\* page 1 read the empty ledger, page 2 saved its record, page 1 wrote:
\* both calls returned and the ledger holds the record of page 1 alone
C23_Witness ==
    /\ tabs[1].lastWriter /\ tabs[1].overwrote
    /\ tabs[1].pc = "idle" /\ tabs[2].pc = "idle"
    /\ tabs[1].snapshot = EmptyLedger
    /\ SumLen(appended, Games) = 2
    /\ getTotalCount(scoresItem) = 1
    /\ RowsWith(getAllScores(scoresItem), 2) = {}

(***************************************************************************)
(* C24  init() on a storage that holds a scores item leaves the ledger     *)
(* unchanged: it writes the empty ledger only when the key is absent.  It  *)
(* changes the stored streak only as the rules of the recomputation        *)
(* dictate, and never raises the count when no record is dated today.      *)
(***************************************************************************)
StreakAsRecomputed ==
    /\ ParseStreak(streakItem') =
           FiveRules(ParseStreak(streakItem), Today, PlayedToday)
    /\ ~PlayedToday => ParseStreak(streakItem').count <= ParseStreak(streakItem).count

C24_InitPreservesStore ==
    [][last'.op = "init" =>
          /\ scoresItem.kind # "absent" => scoresItem' = scoresItem
          /\ StreakAsRecomputed]_vars

\* as amended: the empty ledger is written when the key is absent or holds
\* the empty string; the ledger read back is the same in every case
C24_InitPreservesLedger ==
    [][last'.op = "init" =>
          /\ ~Falsy(scoresItem) => scoresItem' = scoresItem
          /\ Falsy(scoresItem) => scoresItem' = Stringified(EmptyLedger)
          /\ getAllScores(scoresItem') = getAllScores(scoresItem)
          /\ StreakAsRecomputed]_vars

\* init found a ledger with rows, none of today, and a streak to reset
C24_Witness ==
    /\ last.op = "init"
    /\ last.scoresKind = "ok" /\ last.total > 0 /\ ~last.played
    /\ last.streak.count > 0
    /\ Stored.count = 0
    /\ getTotalCount(scoresItem) = last.total

(***************************************************************************)
(* C25  The recomputation is idempotent within a day: for every stored     *)
(* streak and every ledger, a second updateStreak on the same day, no      *)
(* saveScore in between, leaves the streak item as the first left it.      *)
(***************************************************************************)
C25_RecomputationIdempotent ==
    [][last.op = "updateStreak" /\ last'.op = "updateStreak"
          => streakItem' = streakItem]_vars

\* two recomputations in a row, the first of which continued a streak
C25_Witness ==
    /\ last.op = "updateStreak"
    /\ last.streak = Stored
    /\ Stored.lastDate = Today /\ Stored.count = 3

(***************************************************************************)
(* C26  A personal best never goes down: over any sequence of saveScore    *)
(* calls without a reset, getBestScore(g) and getBestScore(g, d) never     *)
(* return less than they returned before.                                  *)
(***************************************************************************)
C26_BestNeverDecreases ==
    [][last'.op = "saveScore" =>
          \A g \in Games, d \in Difficulties \cup {"none"} :
              getBestScore(scoresItem', g, d) >= getBestScore(scoresItem, g, d)]_vars

(***************************************************************************)
(* C27  The stored streak is well formed in every state reached from the   *)
(* empty store by init, saveScore, clearAll and the passing of days: the   *)
(* count is a non-negative integer; a count of 1 or more comes with a      *)
(* lastDate; lastDate is never later than today and is a day on which an   *)
(* outcome was recorded; and lastDate never moves to an earlier date.      *)
(***************************************************************************)
StreakWellFormed ==
    /\ streakItem.kind = "ok"
    /\ Stored.count \in Nat
    /\ Stored.count >= 1 => IsDate(Stored.lastDate)
    /\ IsDate(Stored.lastDate) => /\ Stored.lastDate <= Today
                                  /\ Stored.lastDate \in PlayedDays

LastDateNotEarlier ==
    IsDate(ParseStreak(streakItem).lastDate) /\ IsDate(ParseStreak(streakItem').lastDate)
        => ParseStreak(streakItem').lastDate >= ParseStreak(streakItem).lastDate

C27_StreakWellFormed == []StreakWellFormed /\ [][LastDateNotEarlier]_vars

\* a saveScore has moved lastDate from yesterday to today
C27_Witness ==
    /\ last.op = "saveScore"
    /\ last.streak.lastDate = Yesterday /\ IsDate(Yesterday)
    /\ Stored = [count |-> last.streak.count + 1, lastDate |-> Today]
    /\ {Yesterday, Today} \subseteq PlayedDays

(***************************************************************************)
(* C28  Memory Match flip lock.  At any time at most two cards are in      *)
(* flippedCards; while a pair awaits its checkMatch timeout the board is   *)
(* locked, so no further card is flipped; moves is the number of pairs of  *)
(* flips.                                                                  *)
(***************************************************************************)
AwaitingEvaluation ==
    \E k \in 1 .. Len(memory.timeouts) : ~memory.timeouts[k].stale

C28_FlipLock ==
    /\ Len(memory.flippedCards) <= 2
    /\ AwaitingEvaluation => memory.isLocked /\ Len(memory.flippedCards) = 2
    /\ memory.moves = memory.flips \div 2

(***************************************************************************)
(* C29  Memory Match completion.  In every session matchedPairs never      *)
(* exceeds the pairs of the chosen difficulty, and the session has ended   *)
(* (timer stopped, Storage.saveScore called exactly once) when and only    *)
(* when matchedPairs has reached that number, also when start() is called  *)
(* while a checkMatch timeout of the previous board is pending.            *)
(***************************************************************************)
C29_Completion ==
    memory.n > 0 =>
        /\ memory.matchedPairs <= ConfigPairs(memory.difficulty)
        /\ memory.saves <= 1
        /\ memory.saves = 1 <=> memory.matchedPairs = ConfigPairs(memory.difficulty)
        /\ memory.saves = 1 <=> ~memory.timer

(***************************************************************************)
(* C30  Flanker single challenge chain.  In a session at most one          *)
(* nextChallenge or stimulus timeout is pending at any time and round      *)
(* grows by one per stimulus shown, so at most totalRounds stimuli are     *)
(* shown and correct + incorrect is at most totalRounds, also when         *)
(* start() is called while timeouts of the previous session are pending.   *)
(***************************************************************************)
C30_SingleChain ==
    /\ flanker.nextPending + flanker.fixationPending <= 1
    /\ flanker.shown <= flanker.round
    /\ flanker.shown <= TotalRounds
    /\ flanker.correct + flanker.incorrect <= TotalRounds

(***************************************************************************)
(* C31  Pattern Puzzle lives.  While a session is in progress lives is at  *)
(* least 1; each wrong answer takes exactly one life and resets the answer *)
(* streak to 0; the session has ended, with exactly one score saved, when  *)
(* and only when lives has reached 0, whenever the answers are clicked,    *)
(* the 800 ms after a correct answer included.                             *)
(***************************************************************************)
LivesInProgress == pattern.isPlaying => pattern.lives >= 1

LivesCounted ==
    /\ pattern.n > 0 =>
           pattern.lives = ConfigLives(pattern.difficulty) - pattern.wrong
    /\ [][pattern'.wrong = pattern.wrong + 1 => pattern'.streak = 0]_vars

EndsAtZero ==
    pattern.n > 0 =>
        /\ ~pattern.isPlaying <=> pattern.lives = 0
        /\ pattern.saves = IF pattern.isPlaying THEN 0 ELSE 1

C31_Lives == []LivesInProgress /\ LivesCounted /\ []EndsAtZero

(***************************************************************************)
(* C32  Pattern Puzzle scores each puzzle at most once.  For the puzzle on *)
(* display at most one correct answer is credited, so level - 1, the       *)
(* answers credited in the session, never exceeds the puzzles presented,   *)
(* and a credited answer raises level and the answer streak by exactly 1,  *)
(* also when the correct option is clicked again before the next puzzle is *)
(* rendered.                                                               *)
(***************************************************************************)
CreditedOnce ==
    /\ pattern.credits <= 1
    /\ pattern.n > 0 => pattern.level - 1 <= pattern.puzzles

CreditIsOne ==
    [][pattern'.credits = pattern.credits + 1 =>
           /\ pattern'.level = pattern.level + 1
           /\ pattern'.streak = pattern.streak + 1
           /\ pattern'.score = pattern.score
                  + PatternPoints(pattern.level, pattern'.streak,
                                  pattern.difficulty)]_vars

C32_ScoredOnce == []CreditedOnce /\ CreditIsOne

(***************************************************************************)
(* C33  Pattern Puzzle options.  For every generated pattern and every     *)
(* difficulty renderOptions terminates, its random draws being fair, and   *)
(* leaves exactly optionCount options (3, 4 or 5), pairwise distinct, of   *)
(* which exactly one is the correct answer; the correct answer is the      *)
(* ninth element of the pattern's sequence.                                *)
(***************************************************************************)
OptionsRendered ==
    render.pc = "done" =>
        LET o == render.allOptions
            cp == render.currentPattern
        IN  /\ Len(o) = OptionCount(render.difficulty)
            /\ Len(o) \in {3, 4, 5}
            /\ \A i, j \in 1 .. Len(o) : o[i] = o[j] => i = j
            /\ Cardinality({i \in 1 .. Len(o) : o[i] = cp.answer}) = 1
            /\ Len(cp.sequence) = 9 /\ cp.answer = cp.sequence[9]

C33_Options ==
    /\ []OptionsRendered
    /\ (render.pc # "done") ~> (render.pc = "done")

\* five options rendered for a pattern of shapes
C33_Witness ==
    /\ render.pc = "done" /\ render.difficulty = "hard"
    /\ render.currentPattern.type = "shape"
    /\ Len(render.allOptions) = 5
    /\ render.allOptions[1] # render.currentPattern.answer

(***************************************************************************)
(* C34  Sequence Recall growth.  In every session, whenever the player is  *)
(* asked to repeat the sequence its length is startLength + level - 1; the *)
(* sequence grows by exactly one item per completed round and its earlier  *)
(* items never change; an input is ignored while the sequence is being     *)
(* shown or after the game has ended; the first wrong input ends the       *)
(* session, and exactly one score is saved.                                *)
(***************************************************************************)
\* the panel is displayed in a running game: "Your turn!"
Asked == recall.isPlaying /\ recall.inputShown /\ ~recall.isShowingSequence

\* an interval of playSequence is highlighting the items
BeingShown == recall.intervals # <<>>

\* the input so far departs from the sequence
Mismatch ==
    \E k \in 1 .. Len(recall.userInput) :
        k > Len(recall.sequence) \/ recall.userInput[k] # recall.sequence[k]

LengthWhenAsked ==
    Asked => Len(recall.sequence)
                 = ConfigStartLength(recall.difficulty) + recall.level - 1

GrowsWithRounds ==
    /\ [](recall.n > 0 =>
             Len(recall.sequence)
                 \in {ConfigStartLength(recall.difficulty) + recall.level - 2,
                      ConfigStartLength(recall.difficulty) + recall.level - 1})
    /\ [][recall'.n = recall.n =>
             /\ Len(recall'.sequence) >= Len(recall.sequence)
             /\ \A k \in 1 .. Len(recall.sequence) :
                    recall'.sequence[k] = recall.sequence[k]]_vars

InputIgnored ==
    [][recall'.op = "handleInput" /\ (BeingShown \/ ~recall.isPlaying) =>
           /\ recall'.userInput = recall.userInput
           /\ recall'.level = recall.level /\ recall'.score = recall.score
           /\ recall'.saves = recall.saves]_vars

WrongInputEnds ==
    recall.n > 0 =>
        /\ Mismatch => ~recall.isPlaying
        /\ recall.saves = IF recall.isPlaying THEN 0 ELSE 1

C34_Growth ==
    /\ []LengthWhenAsked /\ GrowsWithRounds /\ InputIgnored /\ []WrongInputEnds
====
